---- MODULE Spec2Model ----
(***************************************************************************)
(* PianoKeys: the MIDI parser (src/src/music_logic.py), the scrolling      *)
(* piano roll (src/src/piano_roll.py) and the frame loop (src/src/main.py).*)
(*                                                                         *)
(* SpecParse  parse_midi_file applied to every file of a bounded set.      *)
(* SpecRoll   PianoRoll.update and draw at every playhead of a bounded set.*)
(* SpecEffects  trigger_hit_effect and update on the hit effects of one     *)
(*            piano roll.                                                  *)
(* SpecTime   the piano roll's conversion of ticks to seconds, in floats.  *)
(* SpecInput  TextInputBox.handle_event on a text box of any fill.         *)
(* SpecButton Button.handle_event and set_enabled, the callback counted.   *)
(* SpecKeys   Keyboard.set_key_pressed and handle_mouse_click, with sounds. *)
(* Spec       main(): the default song is loaded, then the frame loop runs  *)
(*            on a bounded number of frames and events.                    *)
(***************************************************************************)
EXTENDS Integers, Sequences, FiniteSets, TLC

VARIABLES
    midi_file,      \* the file handed to parse_midi_file
    pc,             \* where control is: "start", "returned" (SpecParse);
                    \* "constructed", "updated" (SpecRoll); "tick", "events",
                    \* "quit", "crashed" (Spec)
    locals,         \* parse_midi_file's local variables at its return
    result,         \* the value parse_midi_file returned
    the_piano_roll, \* the PianoRoll object
    current_song_time_seconds,  \* the playhead, in milliseconds
    running,        \* main(): the loop's flag
    paused,
    show_search_results_ui,
    search_input_box,           \* TextInputBox: active, text (its characters)
    search_button,              \* Button: enabled, is_hovered, is_pressed
    search_results_display_list,    \* ScrollableList: items_data, selected_index_abs
    pressed_keys,   \* piano_keyboard.pressed_keys, the notes it holds
    frames,         \* the frames begun
    events,         \* the events handled
    dt_ms,          \* main(): what clock.tick returned for the frame
    last,           \* the event handled last, and what handling it did; in a
                    \* session also the playhead of the latest update of the
                    \* piano roll (drawn_at, -1 before the first) and whether
                    \* playback was paused ever since (paused_since)
    seconds,        \* SpecTime: two tick counts and their conversions to seconds
    key_sounds      \* Keyboard.key_sounds, the notes it holds a sound for

parseVars == <<midi_file, locals, result>>
rollVars == <<the_piano_roll, current_song_time_seconds, key_sounds>>
mainVars == <<running, paused, show_search_results_ui, search_input_box, search_button,
              search_results_display_list, pressed_keys, frames, events, dt_ms, last>>
vars == <<pc, parseVars, rollVars, mainVars, seconds, key_sounds>>

----------------------------------------------------------------------------
(* Bounds of the model.                                                    *)

\* longest track of a one-track file
MaxTrackLen == 4
\* most tracks of a many-track file
MaxTracks == 2
\* most events, all tracks together, of a many-track file
MaxFileEvents == 4
\* most notes of a piano roll built for SpecRoll
MaxRollNotes == 1
\* the playheads of SpecRoll are 0..MaxPlayheadSteps steps of 50 ms
MaxPlayheadSteps == 80
\* the frames and the events of a session of Spec
MaxFrames == 2
MaxEvents == 3
\* SpecEffects: the hit effects alive at once, and the updates in a row
MaxEffects == 2
MaxUpdates == 28
\* SpecTime: the largest tick count converted
MaxTicks == 7
\* SpecInput: the events a text box handles
MaxKeys == 4
\* SpecButton: the events a button handles and the calls of set_enabled
MaxClicks == 5
\* SpecKeys: the calls of set_key_pressed and the clicks on a key
MaxCalls == 4

----------------------------------------------------------------------------
(* MIDI messages as mido hands them over: type, note, velocity, the        *)
(* delta-time in ticks, and the tempo of a set_tempo meta message.         *)

Msg(type, note, velocity, time, tempo) ==
    [type |-> type, note |-> note, velocity |-> velocity, time |-> time, tempo |-> tempo]

Pitches == {60, 62}
Deltas == {0, 240}
Tempos == {400000, 600000}

NoteMsgs ==
    {Msg("note_on", p, v, d, 0) : p \in Pitches, v \in {0, 64}, d \in Deltas}
    \cup {Msg("note_off", p, 64, d, 0) : p \in Pitches, d \in Deltas}

\* one-track files: every note message, and a meta message that only takes time
TrackMsgs == NoteMsgs \cup {Msg("track_name", 0, 0, 240, 0)}

\* many-track files: one pitch, and the tempo messages
FileMsgs ==
    {Msg("note_on", 60, 64, 0, 0), Msg("note_on", 60, 0, 240, 0), Msg("note_off", 60, 64, 0, 0)}
    \cup {Msg("set_tempo", 0, 0, 0, t) : t \in Tempos}

MidiFile(kind, tpb, tracks) == [kind |-> kind, ticks_per_beat |-> tpb, tracks |-> tracks]

\* what a path can lead to besides a MIDI file: no file, or bytes mido rejects
BadFiles == {MidiFile(k, 0, <<>>) : k \in {"absent", "empty", "garbled", "bad_key_signature"}}

\* the messages flat[from + 1 .. to] as one track
Segment(flat, from, to) == [i \in 1..(to - from) |-> flat[from + i]]

\* flat cut into Len(cuts) + 1 tracks at the positions cuts (nondecreasing)
Cut(flat, cuts) ==
    [i \in 1..(Len(cuts) + 1) |->
        Segment(flat, IF i = 1 THEN 0 ELSE cuts[i - 1],
                      IF i = Len(cuts) + 1 THEN Len(flat) ELSE cuts[i])]

Nondecreasing(cuts) == \A i \in 1..(Len(cuts) - 1) : cuts[i] <= cuts[i + 1]

----------------------------------------------------------------------------
(* parse_midi_file                                                         *)

Note(note, start_time, duration) ==
    [note |-> note, start_time |-> start_time, duration |-> duration]

\* mido.MidiFile(path): the exception it raises, or "none"
OpenRaises(f) ==
    CASE f.kind = "absent" -> "FileNotFoundError"
      [] f.kind = "empty" -> "EOFError"
      [] f.kind = "garbled" -> "OSError"
      [] f.kind = "bad_key_signature" -> "KeySignatureError"
      [] OTHER -> "none"

\* Handled without the clause "except Exception"
HandledByName(exc) ==
    \/ exc = "FileNotFoundError"
    \/ exc = "KeySignatureError"

\* the classes "except Exception" catches, among those mido raises
Exceptions == {"FileNotFoundError", "KeySignatureError", "EOFError", "OSError"}

\* the except clauses of parse_midi_file, each ending in return None
Handled(exc) ==
    \/ exc = "FileNotFoundError"
    \/ exc = "KeySignatureError"
    \/ exc \in Exceptions

IsTempoMsg(msg) == msg.type = "set_tempo"

\* FirstTempoIndex without the break: the last set_tempo of the track
RECURSIVE LastTempoIndex(_, _)
LastTempoIndex(track, i) ==
    IF i > Len(track) THEN 0
    ELSE LET later == LastTempoIndex(track, i + 1)
         IN  IF later # 0 THEN later ELSE IF IsTempoMsg(track[i]) THEN i ELSE 0

\* the first set_tempo of a track, as an index, 0 when there is none
RECURSIVE FirstTempoIndex(_, _)
FirstTempoIndex(track, i) ==
    IF i > Len(track) THEN 0
    ELSE IF IsTempoMsg(track[i]) THEN i
    ELSE FirstTempoIndex(track, i + 1)

\* the loop over the tracks looking for the first set_tempo, from track i on
RECURSIVE ScanTempo(_, _)
ScanTempo(tracks, i) ==
    IF i > Len(tracks) THEN 500000
    ELSE LET k == FirstTempoIndex(tracks[i], 1)
         IN  IF k # 0 THEN tracks[i][k].tempo ELSE ScanTempo(tracks, i + 1)

IsNoteOn(msg) == msg.type = "note_on" /\ msg.velocity > 0
IsNoteEnd(msg) == msg.type = "note_off" \/ (msg.type = "note_on" /\ msg.velocity = 0)

note_on_count(track) == Cardinality({i \in 1..Len(track) : IsNoteOn(track[i])})

\* BetterTrack with >= for >: the last of the tracks that tie
BetterOrEqualTrack(count, max_note_on_events) == count >= max_note_on_events

\* the comparison that moves best_track_index to track i
BetterTrack(count, max_note_on_events) == count > max_note_on_events

\* the selection loop from track i on; python's index i is i - 1 here
RECURSIVE SelectTrack(_, _, _, _)
SelectTrack(tracks, i, best_track_index, max_note_on_events) ==
    IF i > Len(tracks) THEN best_track_index
    ELSE IF BetterTrack(note_on_count(tracks[i]), max_note_on_events)
         THEN SelectTrack(tracks, i + 1, i, note_on_count(tracks[i]))
         ELSE SelectTrack(tracks, i + 1, best_track_index, max_note_on_events)

WalkStart == [current_time_ticks |-> 0, active_notes |-> <<>>, notes_list |-> <<>>]

Without(f, k) == [x \in DOMAIN f \ {k} |-> f[x]]

\* ProcessMsg without the pop: a closed note-on stays pending
ProcessMsgKeepsPending(st, msg) ==
    LET t == st.current_time_ticks + msg.time
    IN  IF IsNoteOn(msg)
        THEN [st EXCEPT !.current_time_ticks = t,
                        !.active_notes = (msg.note :> t) @@ st.active_notes]
        ELSE IF IsNoteEnd(msg) /\ msg.note \in DOMAIN st.active_notes
        THEN LET start_time == st.active_notes[msg.note]
                 duration == t - start_time
             IN  [current_time_ticks |-> t,
                  active_notes |-> st.active_notes,
                  notes_list |-> IF duration > 0
                                 THEN Append(st.notes_list, Note(msg.note, start_time, duration))
                                 ELSE st.notes_list]
        ELSE [st EXCEPT !.current_time_ticks = t]

\* ProcessMsg with duration >= 0 for duration > 0
ProcessMsgZeroDuration(st, msg) ==
    LET t == st.current_time_ticks + msg.time
    IN  IF IsNoteOn(msg)
        THEN [st EXCEPT !.current_time_ticks = t,
                        !.active_notes = (msg.note :> t) @@ st.active_notes]
        ELSE IF IsNoteEnd(msg) /\ msg.note \in DOMAIN st.active_notes
        THEN LET start_time == st.active_notes[msg.note]
                 duration == t - start_time
             IN  [current_time_ticks |-> t,
                  active_notes |-> Without(st.active_notes, msg.note),
                  notes_list |-> IF duration >= 0
                                 THEN Append(st.notes_list, Note(msg.note, start_time, duration))
                                 ELSE st.notes_list]
        ELSE [st EXCEPT !.current_time_ticks = t]

\* ProcessMsg where a note-on does not replace a pending start of its pitch
ProcessMsgKeepsFirstStart(st, msg) ==
    LET t == st.current_time_ticks + msg.time
    IN  IF IsNoteOn(msg)
        THEN [st EXCEPT !.current_time_ticks = t,
                        !.active_notes = st.active_notes @@ (msg.note :> t)]
        ELSE IF IsNoteEnd(msg) /\ msg.note \in DOMAIN st.active_notes
        THEN LET start_time == st.active_notes[msg.note]
                 duration == t - start_time
             IN  [current_time_ticks |-> t,
                  active_notes |-> Without(st.active_notes, msg.note),
                  notes_list |-> IF duration > 0
                                 THEN Append(st.notes_list, Note(msg.note, start_time, duration))
                                 ELSE st.notes_list]
        ELSE [st EXCEPT !.current_time_ticks = t]

\* ProcessMsg where an end at the tick of the pending start leaves it pending
ProcessMsgPopsOnlyOnEmit(st, msg) ==
    LET t == st.current_time_ticks + msg.time
    IN  IF IsNoteOn(msg)
        THEN [st EXCEPT !.current_time_ticks = t,
                        !.active_notes = (msg.note :> t) @@ st.active_notes]
        ELSE IF IsNoteEnd(msg) /\ msg.note \in DOMAIN st.active_notes
        THEN LET start_time == st.active_notes[msg.note]
                 duration == t - start_time
             IN  [current_time_ticks |-> t,
                  active_notes |-> IF duration > 0 THEN Without(st.active_notes, msg.note)
                                   ELSE st.active_notes,
                  notes_list |-> IF duration > 0
                                 THEN Append(st.notes_list, Note(msg.note, start_time, duration))
                                 ELSE st.notes_list]
        ELSE [st EXCEPT !.current_time_ticks = t]

\* the body of the loop over track_to_parse, for one message
ProcessMsg(st, msg) ==
    LET t == st.current_time_ticks + msg.time
    IN  IF IsNoteOn(msg)
        THEN [st EXCEPT !.current_time_ticks = t,
                        !.active_notes = (msg.note :> t) @@ st.active_notes]
        ELSE IF IsNoteEnd(msg) /\ msg.note \in DOMAIN st.active_notes
        THEN LET start_time == st.active_notes[msg.note]
                 duration == t - start_time
             IN  [current_time_ticks |-> t,
                  active_notes |-> Without(st.active_notes, msg.note),
                  notes_list |-> IF duration > 0
                                 THEN Append(st.notes_list, Note(msg.note, start_time, duration))
                                 ELSE st.notes_list]
        ELSE [st EXCEPT !.current_time_ticks = t]

\* the state of the walk after the first k messages of the track
RECURSIVE Walk(_, _)
Walk(track, k) == IF k = 0 THEN WalkStart ELSE ProcessMsg(Walk(track, k - 1), track[k])

\* InsertNote that puts n before the notes of its start_time
InsertNoteBeforeTies(sorted, n) ==
    LET after == {i \in 1..Len(sorted) : sorted[i].start_time < n.start_time}
        k == Cardinality({i \in 1..Len(sorted) : \A j \in 1..i : j \in after})
    IN  SubSeq(sorted, 1, k) \o <<n>> \o SubSeq(sorted, k + 1, Len(sorted))

\* list.sort(key=start_time): stable, ascending
RECURSIVE SortNotes(_)
InsertNote(sorted, n) ==
    LET after == {i \in 1..Len(sorted) : sorted[i].start_time <= n.start_time}
        k == Cardinality({i \in 1..Len(sorted) : \A j \in 1..i : j \in after})
    IN  SubSeq(sorted, 1, k) \o <<n>> \o SubSeq(sorted, k + 1, Len(sorted))
SortNotes(s) == IF s = <<>> THEN <<>> ELSE InsertNote(SortNotes(SubSeq(s, 1, Len(s) - 1)), s[Len(s)])

NoLocals ==
    [returned |-> "nothing", raised |-> "none", tempo_micros_per_beat |-> 500000,
     ticks_per_beat |-> 0, best_track_index |-> 0, current_time_ticks |-> 0,
     active_notes |-> <<>>, emitted |-> <<>>, notes_list |-> <<>>]

\* The locals of parse_midi_file when it returns. returned is "None" or "dict";
\* raised names an exception that left the function. best_track_index is the
\* python index plus one, 0 for python's -1; emitted is notes_list before the sort.
ParseLocals(f) ==
    LET exc == OpenRaises(f)
    IN  IF exc # "none"
        THEN IF Handled(exc) THEN [NoLocals EXCEPT !.returned = "None"]
             ELSE [NoLocals EXCEPT !.raised = exc]
        ELSE
        LET tempo == ScanTempo(f.tracks, 1)
            opened == [NoLocals EXCEPT !.ticks_per_beat = f.ticks_per_beat,
                                       !.tempo_micros_per_beat = tempo]
        IN  IF f.tracks = <<>> THEN [opened EXCEPT !.returned = "None"]
            ELSE
            LET best == SelectTrack(f.tracks, 1, 0, -1)
            IN  IF best = 0 THEN [opened EXCEPT !.returned = "None"]
                ELSE
                LET track_to_parse == f.tracks[best]
                    w == Walk(track_to_parse, Len(track_to_parse))
                    walked == [opened EXCEPT !.best_track_index = best,
                                             !.current_time_ticks = w.current_time_ticks,
                                             !.active_notes = w.active_notes,
                                             !.emitted = w.notes_list,
                                             !.notes_list = w.notes_list]
                IN  IF w.notes_list = <<>> THEN [walked EXCEPT !.returned = "None"]
                    ELSE [walked EXCEPT !.returned = "dict",
                                        !.notes_list = SortNotes(w.notes_list)]

\* the value parse_midi_file returns: None, or the dictionary
None == [is_none |-> TRUE, notes |-> <<>>, ticks_per_beat |-> 0, tempo |-> 0]

parse_midi_file(f) ==
    LET l == ParseLocals(f)
    IN  IF l.returned = "dict"
        THEN [is_none |-> FALSE, notes |-> l.notes_list,
              ticks_per_beat |-> IF l.ticks_per_beat # 0 THEN l.ticks_per_beat ELSE 480,
              tempo |-> l.tempo_micros_per_beat]
        ELSE None

----------------------------------------------------------------------------
(* Keyboard: the screen layout of the keys, as main() builds it.           *)
(* Lengths are pixels. A pygame.Rect keeps integers: it cuts the fraction  *)
(* off every float it is given.                                            *)

TruncDiv(a, b) == IF a >= 0 THEN a \div b ELSE -((-a) \div b)
Max(a, b) == IF a >= b THEN a ELSE b
Min(a, b) == IF a <= b THEN a ELSE b

----------------------------------------------------------------------------
(* Python floats (IEEE 754 binary64), as far as the piano roll's time base *)
(* needs them: non-negative, normal, rounded to nearest, ties to even.     *)
(* A float is 0 or bits * 2^exp, bits being its 53 significant bits, the   *)
(* lowest first and the highest a 1.                                       *)

Float(bits, exp) == [bits |-> bits, exp |-> exp]
FloatZero == Float(<<>>, 0)
Zeros(n) == [i \in 1..n |-> 0]

\* the bits of a natural number, the lowest first
RECURSIVE NatBits(_)
NatBits(n) == IF n = 0 THEN <<>> ELSE <<n % 2>> \o NatBits(n \div 2)

\* bits without the zeros at its high end
RECURSIVE Trim(_)
Trim(bits) ==
    IF bits = <<>> THEN <<>>
    ELSE IF bits[Len(bits)] = 0 THEN Trim(SubSeq(bits, 1, Len(bits) - 1))
    ELSE bits

\* bits + 1
RECURSIVE Inc(_)
Inc(bits) ==
    IF bits = <<>> THEN <<1>>
    ELSE IF Head(bits) = 0 THEN <<1>> \o Tail(bits)
    ELSE <<0>> \o Inc(Tail(bits))

\* bits * k + carry, for a natural number k
RECURSIVE MulCarry(_, _, _)
MulCarry(bits, k, carry) ==
    IF bits = <<>> THEN NatBits(carry)
    ELSE LET t == Head(bits) * k + carry
         IN  <<t % 2>> \o MulCarry(Tail(bits), k, t \div 2)

\* x + y + carry
RECURSIVE AddBits(_, _, _)
AddBits(x, y, carry) ==
    IF x = <<>> /\ y = <<>> THEN NatBits(carry)
    ELSE LET a == IF x = <<>> THEN 0 ELSE Head(x)
             b == IF y = <<>> THEN 0 ELSE Head(y)
             t == a + b + carry
         IN  <<t % 2>> \o AddBits(IF x = <<>> THEN x ELSE Tail(x),
                                  IF y = <<>> THEN y ELSE Tail(y), t \div 2)

\* RoundToNearest to the 24 significant bits of a single-precision float
RoundToSingle(bits, exp) ==
    LET n == Len(bits)
        d == n - 24
    IN  IF n = 0 THEN FloatZero
        ELSE IF n <= 24 THEN Float(Zeros(53 - n) \o bits, exp - (53 - n))
        ELSE LET kept == SubSeq(bits, d + 1, n)
                 up == /\ bits[d] = 1
                       /\ \/ \E i \in 1..(d - 1) : bits[i] = 1
                          \/ kept[1] = 1
                 r == IF up THEN Inc(kept) ELSE kept
             IN  IF Len(r) = 25 THEN Float(Zeros(29) \o Tail(r), exp + d + 1 - 29)
                 ELSE Float(Zeros(29) \o r, exp + d - 29)

\* the float nearest to bits * 2^exp, the even one of two that are as near
RoundToNearest(bits, exp) ==
    LET n == Len(bits)
        d == n - 53
    IN  IF n = 0 THEN FloatZero
        ELSE IF n <= 53 THEN Float(Zeros(53 - n) \o bits, exp - (53 - n))
        ELSE LET kept == SubSeq(bits, d + 1, n)
                 up == /\ bits[d] = 1
                       /\ \/ \E i \in 1..(d - 1) : bits[i] = 1
                          \/ kept[1] = 1
                 r == IF up THEN Inc(kept) ELSE kept
             IN  IF Len(r) = 54 THEN Float(Tail(r), exp + d + 1) ELSE Float(r, exp + d)

\* long division of r / d: acc holds the quotient's bits so far, frac of them
\* after the point; it stops at 54 significant bits
RECURSIVE Quotient(_, _, _, _)
Quotient(r, d, acc, frac) ==
    IF Len(Trim(acc)) >= 54 THEN [bits |-> acc, frac |-> frac, rem |-> r]
    ELSE LET bit == IF 2 * r >= d THEN 1 ELSE 0
         IN  Quotient(2 * r - bit * d, d, <<bit>> \o acc, frac + 1)

\* n / d for natural numbers n and d > 0 that floats hold exactly
float_div(n, d) ==
    IF n = 0 THEN FloatZero
    ELSE LET q == Quotient(n % d, d, NatBits(n \div d), 0)
             sticky == IF q.rem # 0 THEN 1 ELSE 0
         IN  RoundToNearest(Trim(<<sticky>> \o q.bits), -q.frac - 1)

\* k * x for a natural number k that floats hold exactly
float_mul(k, x) ==
    IF k = 0 \/ x = FloatZero THEN FloatZero
    ELSE RoundToNearest(Trim(MulCarry(x.bits, k, 0)), x.exp)

\* x + y
float_add(x, y) ==
    IF x = FloatZero THEN y
    ELSE IF y = FloatZero THEN x
    ELSE LET e == Min(x.exp, y.exp)
         IN  RoundToNearest(Trim(AddBits(Zeros(x.exp - e) \o x.bits,
                                         Zeros(y.exp - e) \o y.bits, 0)), e)

\* PianoRoll.__init__: tempo_micros_per_beat / (1000000.0 * ticks_per_beat)
seconds_per_tick(roll) == float_div(roll.tempo_micros_per_beat, 1000000 * roll.ticks_per_beat)

\* update(): note_obj.start_time * self.seconds_per_tick
tick_to_seconds(roll, tick) == float_mul(tick, seconds_per_tick(roll))

\* no conversion made yet
NoSeconds == [ticks |-> <<0, 0>>, of_sum |-> FloatZero, of_each |-> <<FloatZero, FloatZero>>,
              sum |-> FloatZero]

SCREEN_WIDTH == 800
SCREEN_HEIGHT == 600
HEADER_HEIGHT == 60
CONTROL_PANEL_HEIGHT == 100
MAIN_SECTION_HEIGHT == SCREEN_HEIGHT - HEADER_HEIGHT - CONTROL_PANEL_HEIGHT
\* int(SCREEN_WIDTH * 0.95)
keyboard_render_width == (SCREEN_WIDTH * 95) \div 100
keyboard_x == (SCREEN_WIDTH - keyboard_render_width) \div 2
start_midi_note == 60
num_octaves == 2
num_white_keys == 7 * num_octaves

WHITE_KEY_NOTES_IN_OCTAVE == <<0, 2, 4, 5, 7, 9, 11>>
BLACK_KEY_NOTES_IN_OCTAVE == <<1, 3, 6, 8, 10>>
\* black_key_relative_positions_factor, in hundredths
black_key_relative_positions_factor == <<75, 175, 375, 475, 575>>

white_key_midi_notes ==
    {start_midi_note + 12 * o + WHITE_KEY_NOTES_IN_OCTAVE[i] : o \in 0..(num_octaves - 1), i \in 1..7}
black_key_midi_notes ==
    {start_midi_note + 12 * o + BLACK_KEY_NOTES_IN_OCTAVE[i] : o \in 0..(num_octaves - 1), i \in 1..5}
all_midi_notes == white_key_midi_notes \cup black_key_midi_notes

IndexIn(seq, v) == CHOOSE i \in 1..Len(seq) : seq[i] = v

\* rect.x and rect.width of a key: white_key_w is width / num_white_keys, a
\* black key is 0.6 of it wide and centred on its factor of white_key_w
KeyInfo(midi_note) ==
    LET o == (midi_note - start_midi_note) \div 12
        n == (midi_note - start_midi_note) % 12
    IN  IF midi_note \in white_key_midi_notes
        THEN [x_on_keyboard |-> keyboard_x
                  + ((7 * o + IndexIn(WHITE_KEY_NOTES_IN_OCTAVE, n) - 1) * keyboard_render_width)
                        \div num_white_keys,
              w_on_keyboard |-> keyboard_render_width \div num_white_keys,
              is_white |-> TRUE]
        ELSE [x_on_keyboard |-> keyboard_x
                  + ((700 * o + black_key_relative_positions_factor[IndexIn(BLACK_KEY_NOTES_IN_OCTAVE, n)] - 30)
                        * keyboard_render_width) \div (100 * num_white_keys),
              w_on_keyboard |-> (6 * keyboard_render_width) \div (10 * num_white_keys),
              is_white |-> FALSE]

\* get_key_layout_info()['key_rects_map']
key_rects_map == [n \in all_midi_notes |-> KeyInfo(n)]

----------------------------------------------------------------------------
(* PianoRoll. Times are milliseconds. A height on screen is kept exactly,  *)
(* as a multiple of 1 / PxScale(roll) of a pixel: with tempo a whole       *)
(* number of milliseconds per beat, one tick scrolls 3 * tempo / 1000      *)
(* such units and one millisecond 3 * ticks_per_beat of them               *)
(* (SCROLL_SPEED_PIXELS_PER_SECOND = 120).                                 *)

\* main(): piano_roll_x, piano_roll_y, piano_roll_width, piano_roll_render_height
piano_roll_x == (SCREEN_WIDTH - keyboard_render_width) \div 2
piano_roll_y == HEADER_HEIGHT + 5
piano_roll_width == keyboard_render_width
piano_roll_render_height == (MAIN_SECTION_HEIGHT * 60) \div 100

Rect(x, y, w, h) == [x |-> x, y |-> y, w |-> w, h |-> h]
Viewport == Rect(piano_roll_x, piano_roll_y, piano_roll_width, piano_roll_render_height)

\* pygame.Rect.clip: the overlap of a and b, of size 0 when there is none
Clip(a, b) ==
    LET x == Max(a.x, b.x)
        y == Max(a.y, b.y)
        w == Min(a.x + a.w, b.x + b.w) - x
        h == Min(a.y + a.h, b.y + b.h) - y
    IN  IF w > 0 /\ h > 0 THEN Rect(x, y, w, h) ELSE Rect(a.x, a.y, 0, 0)

\* PianoRoll.__init__
NewPianoRoll(notes, ticks_per_beat, tempo) ==
    [notes |-> notes,
     ticks_per_beat |-> IF ticks_per_beat > 0 THEN ticks_per_beat ELSE 480,
     tempo_micros_per_beat |-> IF tempo > 0 THEN tempo ELSE 500000,
     visible_note_representations |-> <<>>,
     hit_effects |-> <<>>]

PxScale(roll) == 25 * roll.ticks_per_beat
\* ticks * seconds_per_tick * SCROLL_SPEED_PIXELS_PER_SECOND, in units
TicksToUnits(roll, ticks) == 3 * ticks * (roll.tempo_micros_per_beat \div 1000)
\* seconds * SCROLL_SPEED_PIXELS_PER_SECOND, in units
MillisToUnits(roll, ms) == 3 * ms * roll.ticks_per_beat
\* hit_line_y = y + height * 0.85, in units
hit_line_y(roll) == ((100 * Viewport.y + 85 * Viewport.h) * roll.ticks_per_beat) \div 4

\* _get_key_rect_for_note: the key's entry, or none
HasKey(midi_note) == midi_note \in DOMAIN key_rects_map

\* note_screen_y of notes that scroll upwards
note_screen_y_rising(roll, note_obj, now) ==
    hit_line_y(roll) + (TicksToUnits(roll, note_obj.start_time) - MillisToUnits(roll, now))

\* update(): note_screen_y and note_screen_height of a note, in units
note_screen_y(roll, note_obj, now) ==
    hit_line_y(roll) - (TicksToUnits(roll, note_obj.start_time) - MillisToUnits(roll, now))
note_screen_height(roll, note_obj) == TicksToUnits(roll, note_obj.duration)

\* update(): the test that skips a note as off-screen
Culled(roll, note_obj, now) ==
    \/ note_screen_y(roll, note_obj, now) + note_screen_height(roll, note_obj)
          < Viewport.y * PxScale(roll)
    \/ note_screen_y(roll, note_obj, now) > (Viewport.y + Viewport.h) * PxScale(roll)

\* update(): note_render_rect
NoteRect(roll, note_obj, now) ==
    Rect(key_rects_map[note_obj.note].x_on_keyboard,
         TruncDiv(note_screen_y(roll, note_obj, now) - note_screen_height(roll, note_obj), PxScale(roll)),
         key_rects_map[note_obj.note].w_on_keyboard,
         Max(PxScale(roll), note_screen_height(roll, note_obj)) \div PxScale(roll))

RECURSIVE VisibleFrom(_, _, _)
\* VisibleFrom that gives a note without a key a rectangle at the left edge
VisibleFromWithFallback(roll, now, i) ==
    IF i > Len(roll.notes) THEN <<>>
    ELSE LET note_obj == roll.notes[i]
             rest == VisibleFrom(roll, now, i + 1)
         IN  IF Culled(roll, note_obj, now) THEN rest
             ELSE IF ~HasKey(note_obj.note)
             THEN <<[rect |-> Rect(Viewport.x, Viewport.y, 10, 10), note_obj |-> note_obj]>> \o rest
             ELSE <<[rect |-> NoteRect(roll, note_obj, now), note_obj |-> note_obj]>> \o rest

\* update(): the loop over self.notes, from note i on
VisibleFrom(roll, now, i) ==
    IF i > Len(roll.notes) THEN <<>>
    ELSE LET note_obj == roll.notes[i]
             rest == VisibleFrom(roll, now, i + 1)
         IN  IF Culled(roll, note_obj, now) \/ ~HasKey(note_obj.note) THEN rest
             ELSE <<[rect |-> NoteRect(roll, note_obj, now), note_obj |-> note_obj]>> \o rest

\* FadeEffect at half the fading speed
FadeEffectSlowly(effect) == [effect EXCEPT !.alpha = @ - 5, !.size = @ + 3]

\* update(): one hit effect a frame older
FadeEffect(effect) == [effect EXCEPT !.alpha = @ - 10, !.size = @ + 3]
\* EffectLives without the test of the size
EffectLivesByAlpha(effect) == effect.alpha > 0

\* update(): the test that keeps an effect
EffectLives(effect) == effect.alpha > 0 /\ effect.size < effect.max_size

RECURSIVE FadeEffects(_)
FadeEffects(effects) ==
    IF effects = <<>> THEN <<>>
    ELSE LET effect == FadeEffect(Head(effects))
         IN  (IF EffectLives(effect) THEN <<effect>> ELSE <<>>) \o FadeEffects(Tail(effects))

\* PianoRoll.update(current_time_seconds)
update(roll, now) ==
    [roll EXCEPT !.visible_note_representations = VisibleFrom(roll, now, 1),
                 !.hit_effects = FadeEffects(roll.hit_effects)]

\* trigger_hit_effect that restarts the effects of the note instead of adding one
trigger_hit_effect_once(roll, midi_note) ==
    IF HasKey(midi_note)
    THEN LET initial_size == (key_rects_map[midi_note].w_on_keyboard * 8) \div 10
             fresh == [note_midi |-> midi_note, alpha |-> 255,
                       size |-> initial_size, max_size |-> initial_size * 3]
         IN  IF \E i \in 1..Len(roll.hit_effects) : roll.hit_effects[i].note_midi = midi_note
             THEN [roll EXCEPT !.hit_effects =
                      [i \in 1..Len(@) |-> IF @[i].note_midi = midi_note THEN fresh ELSE @[i]]]
             ELSE [roll EXCEPT !.hit_effects = Append(@, fresh)]
    ELSE roll

\* PianoRoll.trigger_hit_effect(midi_note)
trigger_hit_effect(roll, midi_note) ==
    IF HasKey(midi_note)
    THEN LET initial_size == (key_rects_map[midi_note].w_on_keyboard * 8) \div 10
         IN  [roll EXCEPT !.hit_effects =
                 Append(@, [note_midi |-> midi_note, alpha |-> 255,
                            size |-> initial_size, max_size |-> initial_size * 3])]
    ELSE roll

\* PianoRoll.draw(): the note rectangles it draws, clipped to the roll's area
RECURSIVE DrawnFrom(_, _)
DrawnFrom(roll, i) ==
    IF i > Len(roll.visible_note_representations) THEN <<>>
    ELSE LET item == roll.visible_note_representations[i]
             clipped_rect == Clip(item.rect, Viewport)
         IN  (IF clipped_rect.w > 0 /\ clipped_rect.h > 0
              THEN <<[rect |-> clipped_rect, note_obj |-> item.note_obj]>> ELSE <<>>)
             \o DrawnFrom(roll, i + 1)
Drawn(roll) == DrawnFrom(roll, 1)

----------------------------------------------------------------------------
(* main(): what it builds before the loop.                                 *)

\* the notes a set holds, in ascending order: sorted(list(set(...)))
RECURSIVE sorted(_)
sorted(S) ==
    IF S = {} THEN <<>>
    ELSE LET m == CHOOSE x \in S : \A y \in S : x <= y
         IN  <<m>> \o sorted(S \ {m})

COMPUTER_KEYS_FOR_NOTES ==
    <<"K_a", "K_s", "K_d", "K_f", "K_g", "K_h", "K_j", "K_k", "K_l", "K_SEMICOLON",
      "K_z", "K_x", "K_c", "K_v", "K_b", "K_n", "K_m", "K_COMMA", "K_PERIOD", "K_SLASH",
      "K_q", "K_w", "K_e", "K_r", "K_t", "K_y", "K_u", "K_i", "K_o", "K_p",
      "K_LEFTBRACKET", "K_RIGHTBRACKET">>

sorted_keyboard_notes == sorted(white_key_midi_notes \cup black_key_midi_notes)

\* the notes of the keyboard, ascending, on the computer keys in their order
KEY_TO_MIDI ==
    [k \in {COMPUTER_KEYS_FOR_NOTES[i] :
               i \in 1..Min(Len(COMPUTER_KEYS_FOR_NOTES), Len(sorted_keyboard_notes))}
        |-> sorted_keyboard_notes[IndexIn(COMPUTER_KEYS_FOR_NOTES, k)]]

\* the rectangles of the keyboard, the results list, the input box and the button
keyboard_render_height == (MAIN_SECTION_HEIGHT * 30) \div 100
keyboard_y == HEADER_HEIGHT + MAIN_SECTION_HEIGHT - keyboard_render_height - 10
keyboard_area == Rect(keyboard_x, keyboard_y, keyboard_render_width, keyboard_render_height)
search_results_list_rect ==
    Rect(piano_roll_x, HEADER_HEIGHT + 5, piano_roll_width, (MAIN_SECTION_HEIGHT * 70) \div 100)
control_panel_gui_rect ==
    Rect(10, HEADER_HEIGHT + MAIN_SECTION_HEIGHT + 10, SCREEN_WIDTH - 20, CONTROL_PANEL_HEIGHT - 20)
search_input_box_rect ==
    Rect(control_panel_gui_rect.x, control_panel_gui_rect.y + (control_panel_gui_rect.h - 35) \div 2,
         (control_panel_gui_rect.w * 45) \div 100, 35)
search_button_rect ==
    Rect(search_input_box_rect.x + search_input_box_rect.w + 10, search_input_box_rect.y, 100, 35)

\* pygame.Rect.collidepoint
collidepoint(r, pos) ==
    /\ r.x <= pos[1] /\ pos[1] < r.x + r.w
    /\ r.y <= pos[2] /\ pos[2] < r.y + r.h

\* the text of the input box is the sequence of its characters
initial_text == <<"C", "o", "u", "n", "t", "i", "n", "g", " ", "S", "t", "a", "r", "s">>
max_len == 50
item_height == 25

\* a fallback that puts a placeholder note in the empty song
InitialSongPlaceholder(initial_song_data) ==
    IF ~initial_song_data.is_none
    THEN [parsed_notes |-> initial_song_data.notes,
          initial_song_tpb |-> initial_song_data.ticks_per_beat,
          initial_song_tempo |-> initial_song_data.tempo]
    ELSE [parsed_notes |-> <<Note(60, 0, 480)>>, initial_song_tpb |-> 480,
          initial_song_tempo |-> 500000]

\* main(): the song the piano roll is built from, given what
\* parse_midi_file(default_song_path) returned
InitialSong(initial_song_data) ==
    IF ~initial_song_data.is_none
    THEN [parsed_notes |-> initial_song_data.notes,
          initial_song_tpb |-> initial_song_data.ticks_per_beat,
          initial_song_tempo |-> initial_song_data.tempo]
    ELSE [parsed_notes |-> <<>>, initial_song_tpb |-> 480, initial_song_tempo |-> 500000]

----------------------------------------------------------------------------
(* The events of a session, and the songs it can meet.                     *)

Event(type, key, unicode, pos, button) ==
    [type |-> type, key |-> key, unicode |-> unicode, pos |-> pos, button |-> button]
NoEvent == Event("none", "none", "", <<0, 0>>, 0)
KeyDown(key, unicode) == Event("KEYDOWN", key, unicode, <<0, 0>>, 0)
KeyUp(key) == Event("KEYUP", key, "", <<0, 0>>, 0)
MouseDown(pos, button) == Event("MOUSEBUTTONDOWN", "none", "", pos, button)

\* points in the input box, on the button, in the first row of the results
\* list (over the piano roll), and on the keyboard
PosInput == <<100, 540>>
PosButton == <<400, 540>>
PosItem == <<400, 70>>
PosKey == <<30, 400>>

Events ==
    {Event("QUIT", "none", "", <<0, 0>>, 0)}
    \cup {KeyDown("K_a", "a"), KeyDown("K_r", "r"), KeyDown("K_p", "p"),
          KeyDown("K_ESCAPE", "esc"), KeyDown("K_RETURN", "cr"), KeyDown("K_BACKSPACE", "bs")}
    \cup {KeyUp("K_a"), KeyUp("K_r")}
    \cup {MouseDown(PosInput, 1), MouseDown(PosButton, 1), MouseDown(PosItem, 1),
          MouseDown(PosKey, 1), MouseDown(PosKey, 3)}
    \cup {Event("MOUSEMOTION", "none", "", PosButton, 0),
          Event("MOUSEMOTION", "none", "", PosItem, 0),
          Event("MOUSEBUTTONUP", "none", "", PosButton, 1)}

\* clock.tick(FPS): the milliseconds a frame took, at 60 frames a second or
\* after a frame that blocked
FrameTimes == {17, 400}

NoteOn(note, time) == Msg("note_on", note, 64, time, 0)
NoteOff(note, time) == Msg("note_off", note, 0, time, 0)
\* two notes of 0.6 s each, at 600000 microseconds a beat of 240 ticks
SongA ==
    MidiFile("midi", 240, << <<Msg("set_tempo", 0, 0, 0, 600000), NoteOn(60, 0), NoteOff(60, 240),
                              NoteOn(62, 0), NoteOff(62, 240)>> >>)
\* one note of a beat, with no tempo of its own, 480 ticks a beat
SongB == MidiFile("midi", 480, << <<NoteOn(64, 0), NoteOff(64, 480)>> >>)
\* a file with a tempo and no note
SongC == MidiFile("midi", 480, << <<Msg("set_tempo", 0, 0, 0, 400000)>> >>)

\* what can lie at default_song_path
DefaultSongs == {SongA, SongC, MidiFile("absent", 0, <<>>), MidiFile("empty", 0, <<>>)}

\* what the search can find, and the file behind each url
Item(title, url) == [title |-> title, url |-> url]
ItemB == Item(<<"s", "o", "n", "g", " ", "B">>, "url_b")
ItemC == Item(<<"s", "o", "n", "g", " ", "C">>, "url_c")
SearchResults == {<<>>, <<ItemB>>, <<ItemC>>}
Served(url) == IF url = "url_b" THEN SongB ELSE SongC
no_results_message == <<Item(<<"N", "o", " ", "r", "e", "s", "u", "l", "t", "s", " ",
                               "f", "o", "u", "n", "d", ".">>, "None")>>

----------------------------------------------------------------------------
(* The handlers of main()'s loop. A session s holds what the loop body     *)
(* reads and writes; each step below is a stretch of the loop body, and a  *)
(* step does nothing once an exception has left the loop (s.crashed).      *)

\* event.unicode as the characters it holds: none, or the one the key gives
Characters(unicode) == IF unicode = "" THEN <<>> ELSE <<unicode>>

\* TextInputBox_handle_event that still appends to a text of max_len characters
TextInputBox_handle_event_AppendsAtMax(box, event) ==
    IF event.type = "MOUSEBUTTONDOWN"
    THEN [box |-> [box EXCEPT !.active = collidepoint(search_input_box_rect, event.pos)],
          action |-> "None"]
    ELSE IF event.type = "KEYDOWN" /\ box.active
    THEN IF event.key = "K_RETURN" THEN [box |-> box, action |-> "enter_pressed"]
         ELSE IF event.key = "K_BACKSPACE"
         THEN [box |-> [box EXCEPT !.text = SubSeq(@, 1, Len(@) - 1)], action |-> "None"]
         ELSE IF event.key = "K_ESCAPE"
         THEN [box |-> [box EXCEPT !.active = FALSE], action |-> "None"]
         ELSE [box |-> IF Len(box.text) <= max_len
                       THEN [box EXCEPT !.text = @ \o Characters(event.unicode)] ELSE box,
               action |-> "None"]
    ELSE [box |-> box, action |-> "None"]

\* TextInputBox_handle_event that keeps the focus on a click outside the box
TextInputBox_handle_event_KeepsFocus(box, event) ==
    IF event.type = "MOUSEBUTTONDOWN"
    THEN [box |-> [box EXCEPT !.active = @ \/ collidepoint(search_input_box_rect, event.pos)],
          action |-> "None"]
    ELSE IF event.type = "KEYDOWN" /\ box.active
    THEN IF event.key = "K_RETURN" THEN [box |-> box, action |-> "enter_pressed"]
         ELSE IF event.key = "K_BACKSPACE"
         THEN [box |-> [box EXCEPT !.text = SubSeq(@, 1, Len(@) - 1)], action |-> "None"]
         ELSE IF event.key = "K_ESCAPE"
         THEN [box |-> [box EXCEPT !.active = FALSE], action |-> "None"]
         ELSE [box |-> IF Len(box.text) < max_len
                       THEN [box EXCEPT !.text = @ \o Characters(event.unicode)] ELSE box,
               action |-> "None"]
    ELSE [box |-> box, action |-> "None"]

\* TextInputBox.handle_event: the box and the action it returns
TextInputBox_handle_event(box, event) ==
    IF event.type = "MOUSEBUTTONDOWN"
    THEN [box |-> [box EXCEPT !.active = collidepoint(search_input_box_rect, event.pos)],
          action |-> "None"]
    ELSE IF event.type = "KEYDOWN" /\ box.active
    THEN IF event.key = "K_RETURN" THEN [box |-> box, action |-> "enter_pressed"]
         ELSE IF event.key = "K_BACKSPACE"
         THEN [box |-> [box EXCEPT !.text = SubSeq(@, 1, Len(@) - 1)], action |-> "None"]
         ELSE IF event.key = "K_ESCAPE"
         THEN [box |-> [box EXCEPT !.active = FALSE], action |-> "None"]
         ELSE [box |-> IF Len(box.text) < max_len
                       THEN [box EXCEPT !.text = @ \o Characters(event.unicode)] ELSE box,
               action |-> "None"]
    ELSE [box |-> box, action |-> "None"]

\* Button.set_enabled
set_enabled(button, enabled_status) ==
    [enabled |-> enabled_status, is_hovered |-> FALSE, is_pressed |-> FALSE]

\* ScrollableList.set_items
set_items(list, items_data_list) ==
    [list EXCEPT !.items_data = items_data_list, !.selected_index_abs = 0]

\* Keyboard.set_key_pressed
set_key_pressed(pressed, midi_note, is_pressed) ==
    IF is_pressed THEN pressed \cup {midi_note} ELSE pressed \ {midi_note}

\* plays_note_sound that plays at every press
plays_note_sound_at_every_press(pressed, sounds, midi_note, is_pressed) ==
    is_pressed /\ midi_note \in sounds

\* Keyboard.set_key_pressed: whether the call plays a sound. play_note_sound
\* is called on a press of a key that was not pressed, and plays if the mixer
\* is initialized and key_sounds holds a sound for the note
plays_note_sound(pressed, sounds, midi_note, is_pressed) ==
    is_pressed /\ midi_note \notin pressed /\ midi_note \in sounds

\* Keyboard.handle_mouse_click on a point of the key of midi_note: the key
\* is toggled
handle_mouse_click(pressed, midi_note) ==
    set_key_pressed(pressed, midi_note, midi_note \notin pressed)

\* on_search_button_click: show_search_results_ui and
\* current_search_results_data are names of its own, main()'s are not written
on_search_button_click(s, search_results) ==
    IF s.input.text = <<>> THEN s
    ELSE [s EXCEPT !.button = set_enabled(set_enabled(@, FALSE), TRUE),
                   !.list = set_items(@, IF search_results # <<>> THEN search_results
                                         ELSE no_results_message),
                   !.input.active = FALSE,
                   !.did = @ \cup {"search"}]

\* Button_handle that takes any left click on an enabled button
Button_handle_IgnoresHover(button, event) ==
    IF ~button.enabled THEN [button |-> button, calls |-> 0]
    ELSE LET b1 == IF event.type = "MOUSEMOTION"
                   THEN [button EXCEPT !.is_hovered = collidepoint(search_button_rect, event.pos)]
                   ELSE button
             click == event.type = "MOUSEBUTTONDOWN" /\ event.button = 1
             b2 == IF click THEN [b1 EXCEPT !.is_pressed = TRUE] ELSE b1
         IN  [button |-> IF event.type = "MOUSEBUTTONUP" /\ event.button = 1 /\ b2.is_pressed
                         THEN [b2 EXCEPT !.is_pressed = FALSE] ELSE b2,
              calls |-> IF click THEN 1 ELSE 0]

\* Button.handle_event: the button as the method itself leaves it, and how
\* many times it calls self.callback
Button_handle(button, event) ==
    IF ~button.enabled THEN [button |-> button, calls |-> 0]
    ELSE LET b1 == IF event.type = "MOUSEMOTION"
                   THEN [button EXCEPT !.is_hovered = collidepoint(search_button_rect, event.pos)]
                   ELSE button
             click == event.type = "MOUSEBUTTONDOWN" /\ event.button = 1 /\ b1.is_hovered
             b2 == IF click THEN [b1 EXCEPT !.is_pressed = TRUE] ELSE b1
         IN  [button |-> IF event.type = "MOUSEBUTTONUP" /\ event.button = 1 /\ b2.is_pressed
                         THEN [b2 EXCEPT !.is_pressed = FALSE] ELSE b2,
              calls |-> IF click THEN 1 ELSE 0]

\* Button.handle_event, with on_search_button_click as its callback
Button_handle_event(s, event, search_results) ==
    LET r == Button_handle(s.button, event)
        s1 == [s EXCEPT !.button = r.button]
    IN  IF r.calls = 1 THEN on_search_button_click(s1, search_results) ELSE s1

\* the loop body, lines 398-405: QUIT, the input box, the button
GuiStep(s, event, search_results) ==
    LET s1 == IF event.type = "QUIT" THEN [s EXCEPT !.running = FALSE] ELSE s
        handled == TextInputBox_handle_event(s1.input, event)
        s2 == [s1 EXCEPT !.input = handled.box]
        s3 == IF handled.action = "enter_pressed"
              THEN on_search_button_click(s2, search_results) ELSE s2
    IN  Button_handle_event(s3, event, search_results)

\* ScrollableList.handle_event: the index of the item a left click is on
\* (from 1), or 0; the list is never scrolled
clicked_item(list, event) ==
    IF /\ event.type = "MOUSEBUTTONDOWN" /\ event.button = 1
       /\ collidepoint(search_results_list_rect, event.pos)
       /\ (event.pos[2] - search_results_list_rect.y) \div item_height < Len(list.items_data)
    THEN (event.pos[2] - search_results_list_rect.y) \div item_height + 1
    ELSE 0

Chars_Downloading == <<"D", "o", "w", "n", "l", "o", "a", "d", "i", "n", "g", ":", " ">>
Chars_DownloadFailed ==
    <<"D", "o", "w", "n", "l", "o", "a", "d", " ", "f", "a", "i", "l", "e", "d", " ", "f", "o", "r", " ">>
Chars_FailedToParse ==
    <<"F", "a", "i", "l", "e", "d", " ", "t", "o", " ", "p", "a", "r", "s", "e", " ", "M", "I", "D", "I", ":", " ">>
Prefix(text, n) == SubSeq(text, 1, Min(n, Len(text)))

\* the loop body, lines 407-465: a click on the results list downloads and
\* loads; PianoRoll has no set_song, the call raises AttributeError
ListStep(s, event, downloaded) ==
    IF s.crashed \/ ~s.show THEN s
    ELSE LET clicked_idx == clicked_item(s.list, event)
             s1 == [s EXCEPT !.list.selected_index_abs = IF clicked_idx # 0 THEN clicked_idx ELSE @]
             hide == [s1 EXCEPT !.show = FALSE, !.list.selected_index_abs = 0]
         IN  IF clicked_idx = 0 THEN s1
             ELSE LET selected_data == s1.list.items_data[clicked_idx]
                      busy == [s1 EXCEPT
                                 !.input.text = Chars_Downloading \o Prefix(selected_data.title, 25)
                                                    \o <<".", ".", ".">>,
                                 !.button = set_enabled(@, FALSE),
                                 !.did = @ \cup {"load"}]
                      done == [hide EXCEPT !.button = set_enabled(@, TRUE), !.did = @ \cup {"load"}]
                  IN  IF selected_data.url = "None" THEN hide
                      ELSE IF ~downloaded
                      THEN [done EXCEPT !.input.text =
                                Chars_DownloadFailed \o Prefix(selected_data.title, 20)]
                      ELSE IF parse_midi_file(Served(selected_data.url)).is_none
                      THEN [done EXCEPT !.input.text =
                                Chars_FailedToParse \o Prefix(selected_data.title, 20)]
                      ELSE [busy EXCEPT !.crashed = TRUE]

\* the loop body, lines 469-486: the game's keys
GameKeyStep(s, event) ==
    IF s.crashed \/ s.input.active \/ s.show \/ event.type # "KEYDOWN" THEN s
    ELSE LET s1 == IF event.key = "K_ESCAPE" THEN [s EXCEPT !.running = FALSE] ELSE s
             s2 == IF event.key = "K_p" THEN [s1 EXCEPT !.paused = ~@] ELSE s1
             active_computer_keys_midi ==
                 {KEY_TO_MIDI[k] : k \in DOMAIN KEY_TO_MIDI} \cap s2.pressed
             s3 == IF event.key = "K_r"
                   THEN [s2 EXCEPT !.time = 0,
                                   !.roll.hit_effects = <<>>,
                                   !.pressed = @ \ active_computer_keys_midi,
                                   !.did = @ \cup {"reset"}]
                   ELSE s2
         IN  IF ~s3.paused /\ event.key \in DOMAIN KEY_TO_MIDI
             THEN [s3 EXCEPT !.pressed = set_key_pressed(@, KEY_TO_MIDI[event.key], TRUE),
                             !.roll = trigger_hit_effect(@, KEY_TO_MIDI[event.key]),
                             !.did = @ \cup {"play"}]
             ELSE s3

\* the loop body, lines 488-494: a key of the piano is let go
KeyUpStep(s, event) ==
    IF s.crashed THEN s
    ELSE IF event.type = "KEYUP" /\ event.key \in DOMAIN KEY_TO_MIDI /\ ~s.input.active
    THEN [s EXCEPT !.pressed = set_key_pressed(@, KEY_TO_MIDI[event.key], FALSE)]
    ELSE s

\* the loop body, lines 496-504: a click on the piano; Keyboard has no rect,
\* reading it raises AttributeError
MouseStep(s, event) ==
    IF s.crashed THEN s
    ELSE IF /\ event.type = "MOUSEBUTTONDOWN"
            /\ ~(s.show /\ collidepoint(search_results_list_rect, event.pos))
            /\ ~collidepoint(search_input_box_rect, event.pos)
            /\ ~s.paused /\ event.button = 1
    THEN [s EXCEPT !.crashed = TRUE]
    ELSE s

\* the body of "for event in pygame.event.get()" on one event
handle(s, event, search_results, downloaded) ==
    MouseStep(KeyUpStep(GameKeyStep(ListStep(GuiStep(s, event, search_results),
                                             event, downloaded), event), event), event)

----------------------------------------------------------------------------
(* Spec: main().                                                           *)

Session ==
    [running |-> running, paused |-> paused, show |-> show_search_results_ui,
     input |-> search_input_box, button |-> search_button,
     list |-> search_results_display_list, pressed |-> pressed_keys,
     roll |-> the_piano_roll, time |-> current_song_time_seconds,
     crashed |-> FALSE, did |-> {}]

\* the widgets and flags as main() builds them
InitMain ==
    /\ running = TRUE
    /\ paused = FALSE
    /\ show_search_results_ui = FALSE
    /\ search_input_box = [active |-> FALSE, text |-> initial_text]
    /\ search_button = [enabled |-> TRUE, is_hovered |-> FALSE, is_pressed |-> FALSE]
    /\ search_results_display_list = [items_data |-> <<>>, selected_index_abs |-> 0]
    /\ pressed_keys = {}
    /\ frames = 0
    /\ events = 0
    /\ dt_ms = 0
    /\ last = [event |-> NoEvent, did |-> {}, drawn_at |-> -1, paused_since |-> FALSE]

Init ==
    /\ midi_file \in DefaultSongs
    /\ locals = ParseLocals(midi_file)
    /\ result = parse_midi_file(midi_file)
    /\ the_piano_roll = NewPianoRoll(InitialSong(result).parsed_notes,
                                     InitialSong(result).initial_song_tpb,
                                     InitialSong(result).initial_song_tempo)
    /\ current_song_time_seconds = 0
    /\ pc = "tick"
    /\ InitMain
    /\ seconds = NoSeconds
    /\ key_sounds = {}

\* AdvancePlayhead that ignores paused
AdvancePlayheadAlways(time, is_paused, elapsed) == time + elapsed

\* main(): "if not paused: current_song_time_seconds += dt_seconds"
AdvancePlayhead(time, is_paused, elapsed) == IF ~is_paused THEN time + elapsed ELSE time

\* the top of the loop: clock.tick, and the playhead moves unless paused
Tick(elapsed) ==
    /\ pc = "tick"
    /\ frames < MaxFrames
    /\ frames' = frames + 1
    /\ dt_ms' = elapsed
    /\ current_song_time_seconds' = AdvancePlayhead(current_song_time_seconds, paused, elapsed)
    /\ pc' = "events"
    /\ UNCHANGED <<parseVars, the_piano_roll, running, paused, show_search_results_ui,
                   search_input_box, search_button, search_results_display_list,
                   pressed_keys, events, last, seconds, key_sounds>>

\* the oracles a handler consults: what find_midi_links finds when the event
\* starts a search, whether download_midi_file succeeds when it starts a load
Consults(event, what) == what \in handle(Session, event, <<>>, FALSE).did
FoundBy(event) == IF Consults(event, "search") THEN SearchResults ELSE {<<>>}
FetchedBy(event) == IF Consults(event, "load") THEN BOOLEAN ELSE {FALSE}

\* one event of pygame.event.get() goes through the loop body
HandleEvent(event, search_results, downloaded) ==
    /\ pc = "events"
    /\ events < MaxEvents
    /\ events' = events + 1
    /\ LET s == handle(Session, event, search_results, downloaded)
       IN  /\ running' = s.running
           /\ paused' = s.paused
           /\ show_search_results_ui' = s.show
           /\ search_input_box' = s.input
           /\ search_button' = s.button
           /\ search_results_display_list' = s.list
           /\ pressed_keys' = s.pressed
           /\ the_piano_roll' = s.roll
           /\ current_song_time_seconds' = s.time
           /\ last' = [event |-> event, did |-> s.did, drawn_at |-> last.drawn_at,
                       paused_since |-> last.paused_since /\ s.paused]
           /\ pc' = IF s.crashed THEN "crashed" ELSE "events"
    /\ UNCHANGED <<parseVars, frames, dt_ms, seconds, key_sounds>>

\* the events are through: update, draw, and the loop's test of running
UpdateAndDraw ==
    /\ pc = "events"
    /\ the_piano_roll' = IF ~show_search_results_ui
                         THEN update(the_piano_roll, current_song_time_seconds)
                         ELSE the_piano_roll
    /\ last' = IF ~show_search_results_ui
               THEN [last EXCEPT !.drawn_at = current_song_time_seconds,
                                 !.paused_since = paused]
               ELSE last
    /\ pc' = IF running THEN "tick" ELSE "quit"
    /\ UNCHANGED <<parseVars, current_song_time_seconds, running, paused,
                   show_search_results_ui, search_input_box, search_button,
                   search_results_display_list, pressed_keys, frames, events, dt_ms,
                   seconds, key_sounds>>

Next ==
    \/ \E elapsed \in FrameTimes : Tick(elapsed)
    \/ \E event \in Events : \E search_results \in FoundBy(event), downloaded \in FetchedBy(event) :
          HandleEvent(event, search_results, downloaded)
    \/ UpdateAndDraw

Spec == Init /\ [][Next]_vars

----------------------------------------------------------------------------
(* SpecParse: one call of parse_midi_file on a file of a bounded set.       *)

\* the file is absent or rejected, has no track, has one track of at most
\* MaxTrackLen messages, or 2..MaxTracks tracks of at most MaxFileEvents together
InitParse ==
    /\ \/ midi_file \in BadFiles
       \/ midi_file = MidiFile("midi", 240, <<>>)
       \/ \E n \in 0..MaxTrackLen : \E t \in [1..n -> TrackMsgs] :
             midi_file = MidiFile("midi", 240, <<t>>)
       \/ \E n \in 0..MaxFileEvents : \E flat \in [1..n -> FileMsgs] :
          \E k \in 2..MaxTracks : \E cuts \in [1..(k - 1) -> 0..n] :
             /\ Nondecreasing(cuts)
             /\ midi_file = MidiFile("midi", 240, Cut(flat, cuts))
    /\ pc = "start"
    /\ locals = NoLocals
    /\ result = None
    /\ the_piano_roll = NewPianoRoll(<<>>, 480, 500000)
    /\ current_song_time_seconds = 0
    /\ InitMain
    /\ seconds = NoSeconds
    /\ key_sounds = {}

Parse ==
    /\ pc = "start"
    /\ pc' = "returned"
    /\ locals' = ParseLocals(midi_file)
    /\ result' = parse_midi_file(midi_file)
    /\ UNCHANGED <<midi_file, rollVars, mainVars, seconds, key_sounds>>

NextParse == Parse

SpecParse == InitParse /\ [][NextParse]_vars

----------------------------------------------------------------------------
(* SpecRoll: a PianoRoll built from a bounded set of notes and time bases, *)
(* updated at any playhead of Playheads, in any order.                     *)

\* every twentieth of a second, and the first frames of a clock that ticks
\* every 17 ms
Playheads == {50 * k : k \in 0..MaxPlayheadSteps} \cup {17 * k : k \in 1..8}

\* a pitch left of the keyboard (59) and its first key (60)
RollPitches == {59, 60}
RollStarts == {0, 960, 2400}
\* a tick, a beat or four, and a length that is no whole number of pixels
RollDurations == {1, 240, 250, 960}
RollNotes == {Note(p, s, d) : p \in RollPitches, s \in RollStarts, d \in RollDurations}
\* (ticks_per_beat, tempo): the defaults, and a slower song
TimeBases == {<<480, 500000>>, <<240, 600000>>}

InitRoll ==
    /\ \E n \in 0..MaxRollNotes : \E notes \in [1..n -> RollNotes] : \E tb \in TimeBases :
          the_piano_roll = NewPianoRoll(notes, tb[1], tb[2])
    /\ current_song_time_seconds = 0
    /\ pc = "constructed"
    /\ midi_file = MidiFile("absent", 0, <<>>)
    /\ locals = NoLocals
    /\ result = None
    /\ InitMain
    /\ seconds = NoSeconds
    /\ key_sounds = {}

\* one frame of the loop: update(now), then draw
UpdateRoll(now) ==
    /\ current_song_time_seconds' = now
    /\ the_piano_roll' = update(the_piano_roll, now)
    /\ pc' = "updated"
    /\ UNCHANGED <<parseVars, mainVars, seconds, key_sounds>>

NextRoll == \E now \in Playheads : UpdateRoll(now)

SpecRoll == InitRoll /\ [][NextRoll]_vars

----------------------------------------------------------------------------
(* SpecEffects: the hit effects of a piano roll under trigger_hit_effect   *)
(* and update, in any order. frames counts the updates since the last      *)
(* trigger.                                                                *)

\* a pitch left of the keyboard, its first white key and its first black key
EffectPitches == {59, 60, 61}

InitEffects ==
    /\ the_piano_roll = NewPianoRoll(<<>>, 480, 500000)
    /\ current_song_time_seconds = 0
    /\ pc = "constructed"
    /\ midi_file = MidiFile("absent", 0, <<>>)
    /\ locals = NoLocals
    /\ result = None
    /\ InitMain
    /\ seconds = NoSeconds
    /\ key_sounds = {}

Trigger(midi_note) ==
    /\ Len(the_piano_roll.hit_effects) < MaxEffects
    /\ the_piano_roll' = trigger_hit_effect(the_piano_roll, midi_note)
    /\ frames' = 0
    /\ pc' = "triggered"
    /\ UNCHANGED <<parseVars, current_song_time_seconds, running, paused,
                   show_search_results_ui, search_input_box, search_button,
                   search_results_display_list, pressed_keys, events, dt_ms, last,
                   seconds, key_sounds>>

UpdateEffects ==
    /\ frames < MaxUpdates
    /\ the_piano_roll' = update(the_piano_roll, current_song_time_seconds)
    /\ frames' = frames + 1
    /\ pc' = "updated"
    /\ UNCHANGED <<parseVars, current_song_time_seconds, running, paused,
                   show_search_results_ui, search_input_box, search_button,
                   search_results_display_list, pressed_keys, events, dt_ms, last,
                   seconds, key_sounds>>

NextEffects ==
    \/ \E midi_note \in EffectPitches : Trigger(midi_note)
    \/ UpdateEffects

SpecEffects == InitEffects /\ [][NextEffects]_vars

----------------------------------------------------------------------------
(* SpecTime: a PianoRoll of any time base of TimeBases converts two tick   *)
(* counts of 0..MaxTicks and their sum to seconds, as update() converts a  *)
(* note's start and duration.                                              *)

TickCounts == 0..MaxTicks

InitTime ==
    /\ \E tb \in TimeBases : the_piano_roll = NewPianoRoll(<<>>, tb[1], tb[2])
    /\ \E a \in TickCounts, b \in TickCounts : seconds = [NoSeconds EXCEPT !.ticks = <<a, b>>]
    /\ key_sounds = {}
    /\ current_song_time_seconds = 0
    /\ pc = "constructed"
    /\ midi_file = MidiFile("absent", 0, <<>>)
    /\ locals = NoLocals
    /\ result = None
    /\ InitMain

Convert ==
    /\ pc = "constructed"
    /\ pc' = "converted"
    /\ LET a == seconds.ticks[1]
           b == seconds.ticks[2]
           first == tick_to_seconds(the_piano_roll, a)
           second == tick_to_seconds(the_piano_roll, b)
       IN  seconds' = [ticks |-> <<a, b>>,
                       of_sum |-> tick_to_seconds(the_piano_roll, a + b),
                       of_each |-> <<first, second>>,
                       sum |-> float_add(first, second)]
    /\ UNCHANGED <<parseVars, rollVars, mainVars, key_sounds>>

NextTime == Convert

SpecTime == InitTime /\ [][NextTime]_vars

----------------------------------------------------------------------------
(* SpecInput: a TextInputBox built with a text that is empty, one          *)
(* character short of max_len or full handles up to MaxKeys events. last   *)
(* also keeps the latest event that bears on the box's focus.              *)

\* a letter, another, a key that gives no character, the keys the box treats
\* apart, a key-up, and a click in the box and one outside it
InputEvents ==
    {KeyDown("K_a", "a"), KeyDown("K_b", "b"), KeyDown("K_LSHIFT", ""),
     KeyDown("K_BACKSPACE", "bs"), KeyDown("K_RETURN", "cr"), KeyDown("K_ESCAPE", "esc"),
     KeyUp("K_a"), MouseDown(PosInput, 1), MouseDown(PosKey, 1)}

\* initial_text: n times the letter a
InitialText(n) == [i \in 1..n |-> "a"]

InitInput ==
    /\ \E n \in {0, max_len - 1, max_len} :
          search_input_box = [active |-> FALSE, text |-> InitialText(n)]
    /\ running = TRUE
    /\ paused = FALSE
    /\ show_search_results_ui = FALSE
    /\ search_button = [enabled |-> TRUE, is_hovered |-> FALSE, is_pressed |-> FALSE]
    /\ search_results_display_list = [items_data |-> <<>>, selected_index_abs |-> 0]
    /\ pressed_keys = {}
    /\ frames = 0
    /\ events = 0
    /\ dt_ms = 0
    /\ last = [event |-> NoEvent, did |-> {}, activation |-> NoEvent]
    /\ seconds = NoSeconds
    /\ key_sounds = {}
    /\ the_piano_roll = NewPianoRoll(<<>>, 480, 500000)
    /\ current_song_time_seconds = 0
    /\ pc = "constructed"
    /\ midi_file = MidiFile("absent", 0, <<>>)
    /\ locals = NoLocals
    /\ result = None

\* an event that bears on the focus of the box: a mouse-button-down, or an
\* Escape key-down that an active box receives
ActivationRelevant(box, event) ==
    \/ event.type = "MOUSEBUTTONDOWN"
    \/ event.type = "KEYDOWN" /\ event.key = "K_ESCAPE" /\ box.active

Type(event) ==
    /\ events < MaxKeys
    /\ events' = events + 1
    /\ LET r == TextInputBox_handle_event(search_input_box, event)
       IN  /\ search_input_box' = r.box
           /\ last' = [event |-> event, did |-> {r.action},
                       activation |-> IF ActivationRelevant(search_input_box, event)
                                      THEN event ELSE last.activation]
    /\ pc' = "handled"
    /\ UNCHANGED <<parseVars, rollVars, running, paused, show_search_results_ui, search_button,
                   search_results_display_list, pressed_keys, frames, dt_ms, seconds, key_sounds>>

NextInput == \E event \in InputEvents : Type(event)

SpecInput == InitInput /\ [][NextInput]_vars

----------------------------------------------------------------------------
(* SpecButton: a Button whose callback counts its calls (last.calls)       *)
(* handles events and is enabled and disabled, MaxClicks steps in all.     *)

\* the mouse moves onto the button and off it, a left and a right press and
\* a release on it, a left press elsewhere, and a key
ButtonEvents ==
    {Event("MOUSEMOTION", "none", "", PosButton, 0), Event("MOUSEMOTION", "none", "", PosKey, 0),
     MouseDown(PosButton, 1), MouseDown(PosButton, 3), MouseDown(PosKey, 1),
     Event("MOUSEBUTTONUP", "none", "", PosButton, 1), KeyDown("K_a", "a")}

InitButton ==
    /\ search_button = [enabled |-> TRUE, is_hovered |-> FALSE, is_pressed |-> FALSE]
    /\ last = [event |-> NoEvent, did |-> {}, calls |-> 0]
    /\ running = TRUE
    /\ paused = FALSE
    /\ show_search_results_ui = FALSE
    /\ search_input_box = [active |-> FALSE, text |-> initial_text]
    /\ search_results_display_list = [items_data |-> <<>>, selected_index_abs |-> 0]
    /\ pressed_keys = {}
    /\ frames = 0
    /\ events = 0
    /\ dt_ms = 0
    /\ seconds = NoSeconds
    /\ key_sounds = {}
    /\ the_piano_roll = NewPianoRoll(<<>>, 480, 500000)
    /\ current_song_time_seconds = 0
    /\ pc = "constructed"
    /\ midi_file = MidiFile("absent", 0, <<>>)
    /\ locals = NoLocals
    /\ result = None

Press(event) ==
    /\ events < MaxClicks
    /\ events' = events + 1
    /\ LET r == Button_handle(search_button, event)
       IN  /\ search_button' = r.button
           /\ last' = [event |-> event, did |-> {}, calls |-> last.calls + r.calls]
    /\ pc' = "handled"
    /\ UNCHANGED <<parseVars, rollVars, running, paused, show_search_results_ui,
                   search_input_box, search_results_display_list, pressed_keys, frames,
                   dt_ms, seconds, key_sounds>>

SetEnabled(enabled_status) ==
    /\ events < MaxClicks
    /\ events' = events + 1
    /\ search_button' = set_enabled(search_button, enabled_status)
    /\ last' = [last EXCEPT !.event = NoEvent]
    /\ pc' = "set"
    /\ UNCHANGED <<parseVars, rollVars, running, paused, show_search_results_ui,
                   search_input_box, search_results_display_list, pressed_keys, frames,
                   dt_ms, seconds, key_sounds>>

NextButton ==
    \/ \E event \in ButtonEvents : Press(event)
    \/ \E enabled_status \in BOOLEAN : SetEnabled(enabled_status)

SpecButton == InitButton /\ [][NextButton]_vars

----------------------------------------------------------------------------
(* SpecKeys: a Keyboard that holds a sound for some of its keys, under     *)
(* MaxCalls calls of set_key_pressed and clicks on its keys. last keeps    *)
(* the call made last, whether it played a sound, and for each note the    *)
(* kind of the last call made for it.                                      *)

\* the first white key and the first black key
KeyPitches == {60, 61}

InitKeys ==
    /\ pressed_keys = {}
    /\ key_sounds \in SUBSET KeyPitches
    /\ last = [event |-> NoEvent, did |-> {}, midi_note |-> 0, is_pressed |-> FALSE,
               played |-> FALSE, calls |-> [n \in KeyPitches |-> "none"]]
    /\ running = TRUE
    /\ paused = FALSE
    /\ show_search_results_ui = FALSE
    /\ search_input_box = [active |-> FALSE, text |-> initial_text]
    /\ search_button = [enabled |-> TRUE, is_hovered |-> FALSE, is_pressed |-> FALSE]
    /\ search_results_display_list = [items_data |-> <<>>, selected_index_abs |-> 0]
    /\ frames = 0
    /\ events = 0
    /\ dt_ms = 0
    /\ seconds = NoSeconds
    /\ the_piano_roll = NewPianoRoll(<<>>, 480, 500000)
    /\ current_song_time_seconds = 0
    /\ pc = "constructed"
    /\ midi_file = MidiFile("absent", 0, <<>>)
    /\ locals = NoLocals
    /\ result = None

SetKeyPressed(midi_note, is_pressed) ==
    /\ events < MaxCalls
    /\ events' = events + 1
    /\ pressed_keys' = set_key_pressed(pressed_keys, midi_note, is_pressed)
    /\ last' = [last EXCEPT
                  !.midi_note = midi_note,
                  !.is_pressed = is_pressed,
                  !.played = plays_note_sound(pressed_keys, key_sounds, midi_note, is_pressed),
                  !.calls[midi_note] = IF is_pressed THEN "press" ELSE "release"]
    /\ pc' = "set"
    /\ UNCHANGED <<parseVars, rollVars, running, paused, show_search_results_ui,
                   search_input_box, search_button, search_results_display_list, frames,
                   dt_ms, seconds, key_sounds>>

MouseClick(midi_note) ==
    /\ events < MaxCalls
    /\ events' = events + 1
    /\ pressed_keys' = handle_mouse_click(pressed_keys, midi_note)
    /\ last' = [last EXCEPT
                  !.midi_note = midi_note,
                  !.is_pressed = midi_note \notin pressed_keys,
                  !.played = plays_note_sound(pressed_keys, key_sounds, midi_note,
                                              midi_note \notin pressed_keys),
                  !.calls[midi_note] = IF midi_note \notin pressed_keys
                                       THEN "press" ELSE "release"]
    /\ pc' = "clicked"
    /\ UNCHANGED <<parseVars, rollVars, running, paused, show_search_results_ui,
                   search_input_box, search_button, search_results_display_list, frames,
                   dt_ms, seconds, key_sounds>>

NextKeys ==
    \/ \E midi_note \in KeyPitches, is_pressed \in BOOLEAN : SetKeyPressed(midi_note, is_pressed)
    \/ \E midi_note \in KeyPitches : MouseClick(midi_note)

SpecKeys == InitKeys /\ [][NextKeys]_vars

----------------------------------------------------------------------------
(* What the claims about the parser speak of, stated on the messages of a  *)
(* track and not on the walk.                                              *)

\* the absolute tick of message i: the sum of the delta-times of messages 1..i
RECURSIVE AbsTick(_, _)
AbsTick(track, i) == IF i = 0 THEN 0 ELSE AbsTick(track, i - 1) + track[i].time

\* message j closes the note-on i: same pitch, no note-on or end of that pitch
\* in between, and a later absolute tick
Closes(track, i, j) ==
    /\ i < j
    /\ IsNoteOn(track[i])
    /\ IsNoteEnd(track[j])
    /\ track[i].note = track[j].note
    /\ \A k \in (i + 1)..(j - 1) :
          ~(track[k].note = track[i].note /\ (IsNoteOn(track[k]) \/ IsNoteEnd(track[k])))
    /\ AbsTick(track, j) > AbsTick(track, i)

\* the closed note-ons of a track, and the Note each stands for
Pairs(track) == {ij \in (1..Len(track)) \X (1..Len(track)) : Closes(track, ij[1], ij[2])}
PairNote(track, ij) ==
    Note(track[ij[1]].note, AbsTick(track, ij[1]), AbsTick(track, ij[2]) - AbsTick(track, ij[1]))

Occurrences(seq, x) == Cardinality({k \in 1..Len(seq) : seq[k] = x})

Returned == pc = "returned"
WellFormed == midi_file.kind = "midi"
Tracks == midi_file.tracks
\* the track with the most nonzero-velocity note-ons, the first of them on a tie
MostNoteOns ==
    CHOOSE b \in 1..Len(Tracks) :
        \A j \in 1..Len(Tracks) :
            /\ note_on_count(Tracks[j]) <= note_on_count(Tracks[b])
            /\ note_on_count(Tracks[j]) = note_on_count(Tracks[b]) => b <= j

\* C1: on the selected track the running tick is the sum of the delta-times
\* so far, and the notes emitted are exactly one Note(p, s, e - s) for every
\* note-on closed by the next end of its pitch at a later tick, and no other.
C1_NotesAreClosedNoteOns ==
    (Returned /\ locals.best_track_index # 0) =>
        LET track == Tracks[locals.best_track_index]
            wanted == {PairNote(track, ij) : ij \in Pairs(track)}
            got == {locals.emitted[k] : k \in 1..Len(locals.emitted)}
        IN  /\ \A k \in 0..Len(track) : Walk(track, k).current_time_ticks = AbsTick(track, k)
            /\ locals.current_time_ticks = AbsTick(track, Len(track))
            /\ got = wanted
            /\ \A n \in wanted :
                  /\ Occurrences(locals.emitted, n)
                        = Cardinality({ij \in Pairs(track) : PairNote(track, ij) = n})
                  /\ result.is_none \/ Occurrences(result.notes, n) = Occurrences(locals.emitted, n)
            /\ result.is_none \/ Len(result.notes) = Len(locals.emitted)

\* two notes of different pitches were emitted, the second one starting
\* before the first one ended
C1_Witness ==
    /\ Returned
    /\ ~result.is_none
    /\ Len(locals.emitted) = 2
    /\ locals.emitted[1].note # locals.emitted[2].note
    /\ locals.emitted[1].start_time < locals.emitted[2].start_time
    /\ locals.emitted[2].start_time < locals.emitted[1].start_time + locals.emitted[1].duration

\* C6: the track parsed is the one with the most nonzero-velocity note-ons,
\* the one of smallest index on a tie, and every note comes from that track.
C6_SelectsMostNoteOns ==
    (Returned /\ WellFormed /\ Tracks # <<>>) =>
        /\ locals.best_track_index = MostNoteOns
        /\ \A k \in 1..Len(locals.emitted) :
              \E ij \in Pairs(Tracks[MostNoteOns]) :
                  PairNote(Tracks[MostNoteOns], ij) = locals.emitted[k]
        /\ Len(locals.emitted) = Cardinality(Pairs(Tracks[MostNoteOns]))

\* two tracks tie on a positive count and the first one was parsed to notes
C6_Witness ==
    /\ Returned
    /\ Len(Tracks) = 2
    /\ note_on_count(Tracks[1]) = note_on_count(Tracks[2])
    /\ note_on_count(Tracks[1]) > 0
    /\ locals.best_track_index = 1
    /\ ~result.is_none

\* the tracks holding a set_tempo
TempoTracks == {i \in 1..Len(Tracks) : \E k \in 1..Len(Tracks[i]) : IsTempoMsg(Tracks[i][k])}

\* C7: the tempo returned is that of the first set_tempo in track order, then
\* message order, whichever track is parsed; 500000 when there is none.
C7_FirstTempo ==
    (Returned /\ ~result.is_none) =>
        IF TempoTracks = {} THEN result.tempo = 500000
        ELSE \E i \in TempoTracks : \E k \in 1..Len(Tracks[i]) :
                /\ \A j \in TempoTracks : i <= j
                /\ IsTempoMsg(Tracks[i][k])
                /\ \A m \in 1..(k - 1) : ~IsTempoMsg(Tracks[i][m])
                /\ result.tempo = Tracks[i][k].tempo

\* the notes come from track 2 and track 1 holds two different tempos
C7_Witness ==
    /\ Returned
    /\ ~result.is_none
    /\ locals.best_track_index = 2
    /\ Len(Tracks[1]) = 2
    /\ IsTempoMsg(Tracks[1][1]) /\ IsTempoMsg(Tracks[1][2])
    /\ Tracks[1][1].tempo # Tracks[1][2].tempo

\* C8: no exception leaves parse_midi_file; it returns None for an absent
\* file, a rejected file, a file of no tracks and a selected track that
\* closes no note-on; a dictionary returned holds at least one note.
C8_NoneNeverRaises ==
    Returned =>
        /\ locals.raised = "none"
        /\ locals.returned \in {"None", "dict"}
        /\ ~WellFormed => result = None
        /\ (WellFormed /\ Tracks = <<>>) => result = None
        /\ (WellFormed /\ Tracks # <<>> /\ Pairs(Tracks[MostNoteOns]) = {}) => result = None
        /\ ~result.is_none => Len(result.notes) >= 1

\* an empty file was handed over, mido raised, and None came back
C8_Witness ==
    /\ Returned
    /\ midi_file.kind = "empty"
    /\ result = None

\* C9 as claimed: a well-formed file with a track fails to load only if no
\* track of it closes a note-on.
C9_FailsOnlyIfNoTrackPlayable ==
    (Returned /\ WellFormed /\ Tracks # <<>> /\ result.is_none) =>
        \A i \in 1..Len(Tracks) : Pairs(Tracks[i]) = {}

\* C9 amended: a well-formed file with a track fails to load exactly when
\* the selected track closes no note-on, whatever the other tracks hold.
C9_FailsIffSelectedTrackUnplayable ==
    (Returned /\ WellFormed /\ Tracks # <<>>) =>
        (result.is_none <=> Pairs(Tracks[MostNoteOns]) = {})

\* the load failed although a track that was not selected closes a note-on
C9_Witness ==
    /\ Returned
    /\ WellFormed
    /\ result.is_none
    /\ \E i \in 1..Len(Tracks) : i # locals.best_track_index /\ Pairs(Tracks[i]) # {}

\* the track parse_midi_file walked
Selected == Tracks[locals.best_track_index]
\* no end of the pitch of message i lies strictly between messages i and j
NoEndBetween(track, i, j) ==
    \A k \in (i + 1)..(j - 1) : ~(IsNoteEnd(track[k]) /\ track[k].note = track[i].note)
\* the note-on i is pressed again by the note-on j, at a later tick, unclosed
Repressed(track, i, j) ==
    /\ i < j
    /\ IsNoteOn(track[i]) /\ IsNoteOn(track[j])
    /\ track[i].note = track[j].note
    /\ AbsTick(track, i) < AbsTick(track, j)
    /\ NoEndBetween(track, i, j)

\* C11: when a pitch is pressed at tick s1 and again at s2 > s1 with no end
\* of it in between, and the next event of the pitch is an end at e > s2, then
\* exactly one note (p, s2, e - s2) is emitted and no note of p starts at s1.
C11_RepressDiscardsPendingStart ==
    (Returned /\ locals.best_track_index # 0) =>
        \A i, j, k \in 1..Len(Selected) :
            (Repressed(Selected, i, j) /\ Closes(Selected, j, k)) =>
                /\ Occurrences(locals.emitted, PairNote(Selected, <<j, k>>)) = 1
                /\ Occurrences(result.notes, PairNote(Selected, <<j, k>>)) = 1
                /\ \A m \in 1..Len(locals.emitted) :
                      ~(/\ locals.emitted[m].note = Selected[i].note
                        /\ locals.emitted[m].start_time = AbsTick(Selected, i))

\* a pitch pressed, pressed again later and then released: one note came out
C11_Witness ==
    /\ Returned
    /\ locals.best_track_index # 0
    /\ \E i, j, k \in 1..Len(Selected) : Repressed(Selected, i, j) /\ Closes(Selected, j, k)
    /\ Len(result.notes) = 1

\* C12: every note returned has duration > 0 and start_time >= 0; an end at
\* the tick of its pitch's pending start emits nothing and clears the pending
\* start; an end of a pitch with no pending start changes nothing but the tick.
C12_PositiveDurations ==
    (Returned /\ locals.best_track_index # 0) =>
        /\ \A m \in 1..Len(result.notes) :
              result.notes[m].duration > 0 /\ result.notes[m].start_time >= 0
        /\ \A m \in 1..Len(locals.emitted) :
              locals.emitted[m].duration > 0 /\ locals.emitted[m].start_time >= 0
        /\ \A k \in 1..Len(Selected) :
              LET before == Walk(Selected, k - 1)
                  after == Walk(Selected, k)
                  p == Selected[k].note
              IN  IsNoteEnd(Selected[k]) =>
                    IF p \in DOMAIN before.active_notes
                    THEN /\ p \notin DOMAIN after.active_notes
                         /\ before.active_notes[p] = AbsTick(Selected, k)
                                => after.notes_list = before.notes_list
                    ELSE /\ after.notes_list = before.notes_list
                         /\ after.active_notes = before.active_notes
        \* an end at the tick of the press, then a later end: no note of that
        \* press (the pitch is pressed at no other place of that tick)
        /\ \A i, j, k \in 1..Len(Selected) :
              (/\ i < j /\ j < k
               /\ IsNoteOn(Selected[i]) /\ IsNoteEnd(Selected[j]) /\ IsNoteEnd(Selected[k])
               /\ Selected[j].note = Selected[i].note /\ Selected[k].note = Selected[i].note
               /\ AbsTick(Selected, j) = AbsTick(Selected, i)
               /\ \A m \in (i + 1)..(k - 1) : ~(IsNoteOn(Selected[m]) /\ Selected[m].note = Selected[i].note)
               /\ \A m \in 1..Len(Selected) :
                     (m # i /\ IsNoteOn(Selected[m]) /\ Selected[m].note = Selected[i].note)
                        => AbsTick(Selected, m) # AbsTick(Selected, i))
              => \A m \in 1..Len(locals.emitted) :
                    ~(/\ locals.emitted[m].note = Selected[i].note
                      /\ locals.emitted[m].start_time = AbsTick(Selected, i))

\* a note was returned, and on the same track a pitch was pressed and ended
\* at the same tick, which emitted nothing and left no pending start
C12_Witness ==
    /\ Returned
    /\ ~result.is_none
    /\ \E k \in 1..Len(Selected) :
          /\ IsNoteEnd(Selected[k])
          /\ Selected[k].note \in DOMAIN Walk(Selected, k - 1).active_notes
          /\ Walk(Selected, k - 1).active_notes[Selected[k].note] = AbsTick(Selected, k)
          /\ Walk(Selected, k).notes_list = Walk(Selected, k - 1).notes_list
          /\ Selected[k].note \notin DOMAIN Walk(Selected, k).active_notes

\* the notes of seq that start at tick s, in their order
RECURSIVE StartingAt(_, _)
StartingAt(seq, s) ==
    IF seq = <<>> THEN <<>>
    ELSE (IF Head(seq).start_time = s THEN <<Head(seq)>> ELSE <<>>) \o StartingAt(Tail(seq), s)

\* C13: the notes returned are in nondecreasing order of start_time, they are
\* the notes emitted, and those of one start_time are in the order of emission.
C13_SortedStable ==
    (Returned /\ ~result.is_none) =>
        /\ \A a, b \in 1..Len(result.notes) :
              a < b => result.notes[a].start_time <= result.notes[b].start_time
        /\ Len(result.notes) = Len(locals.emitted)
        /\ \A m \in 1..Len(locals.emitted) :
              StartingAt(result.notes, locals.emitted[m].start_time)
                 = StartingAt(locals.emitted, locals.emitted[m].start_time)

\* the note emitted first starts later than the one emitted second: the
\* sort moved it
C13_Witness ==
    /\ Returned
    /\ ~result.is_none
    /\ Len(locals.emitted) = 2
    /\ locals.emitted[1].start_time > locals.emitted[2].start_time
    /\ result.notes[1] = locals.emitted[2]

----------------------------------------------------------------------------
(* What the claims about the projection speak of.                          *)

Updated == pc = "updated"
RollNoteSet == {the_piano_roll.notes[i] : i \in 1..Len(the_piano_roll.notes)}
VisibleNotes ==
    {the_piano_roll.visible_note_representations[i].note_obj :
        i \in 1..Len(the_piano_roll.visible_note_representations)}
DrawnNotes == {Drawn(the_piano_roll)[i].note_obj : i \in 1..Len(Drawn(the_piano_roll))}

\* start_s <= playhead <= start_s + dur_s
Sounding(n) ==
    /\ TicksToUnits(the_piano_roll, n.start_time)
          <= MillisToUnits(the_piano_roll, current_song_time_seconds)
    /\ MillisToUnits(the_piano_roll, current_song_time_seconds)
          <= TicksToUnits(the_piano_roll, n.start_time + n.duration)

\* the rectangle the specification projects: bottom edge hit_line_y -
\* vertical_offset, height max(1, dur_s * speed), top_y above it; in units
ProjBottom(n) == note_screen_y(the_piano_roll, n, current_song_time_seconds)
ProjHeight(n) == Max(PxScale(the_piano_roll), note_screen_height(the_piano_roll, n))
ProjTop(n) == ProjBottom(n) - ProjHeight(n)
EntirelyAbove(n) == ProjTop(n) + ProjHeight(n) < Viewport.y * PxScale(the_piano_roll)
EntirelyBelow(n) == ProjTop(n) > (Viewport.y + Viewport.h) * PxScale(the_piano_roll)

\* C2: after a frame, every note with a key that sounds at the playhead has
\* a rectangle of positive width and height inside the roll's area.
C2_SoundingNoteIsDrawn ==
    Updated => \A n \in RollNoteSet : (HasKey(n.note) /\ Sounding(n)) => n \in DrawnNotes

\* C3: after a frame, a note whose projected rectangle is entirely above or
\* entirely below the roll's area is not among the visible notes, and a note
\* with a key is missing from them only in those two cases.
C3_CulledIffOffScreen ==
    Updated => \A n \in RollNoteSet :
        /\ (EntirelyAbove(n) \/ EntirelyBelow(n)) => n \notin VisibleNotes
        /\ (HasKey(n.note) /\ ~EntirelyAbove(n) /\ ~EntirelyBelow(n)) => n \in VisibleNotes

\* C14: at every playhead, no rectangle the piano roll lists or draws belongs
\* to a note whose pitch has no key in the keyboard layout.
C14_NoRectWithoutKey ==
    Updated =>
        /\ \A n \in VisibleNotes : n.note \in DOMAIN key_rects_map
        /\ \A n \in DrawnNotes : n.note \in DOMAIN key_rects_map
        /\ \A n \in RollNoteSet : n.note \notin all_midi_notes => n \notin VisibleNotes

\* a note of a pitch without a key passes the off-screen test at the playhead
\* and has no rectangle
C14_Witness ==
    /\ Updated
    /\ \E n \in RollNoteSet :
          /\ n.note \notin all_midi_notes
          /\ ~Culled(the_piano_roll, n, current_song_time_seconds)
          /\ Sounding(n)
    /\ the_piano_roll.visible_note_representations = <<>>

----------------------------------------------------------------------------
(* The claims about the hit effects, checked under SpecEffects.            *)

Effects == the_piano_roll.hit_effects
EffectSet == {Effects[i] : i \in 1..Len(Effects)}

\* C15: a trigger for a pitch with a key appends one effect of that pitch
\* with alpha 255, whatever effects exist, and a trigger for a pitch without
\* a key changes nothing; the effects that existed stay as they were.
C15_TriggerAddsOneEffect ==
    [][\A midi_note \in EffectPitches :
          Trigger(midi_note) =>
              IF midi_note \in all_midi_notes
              THEN /\ Len(Effects') = Len(Effects) + 1
                   /\ SubSeq(Effects', 1, Len(Effects)) = Effects
                   /\ Effects'[Len(Effects')].note_midi = midi_note
                   /\ Effects'[Len(Effects')].alpha = 255
              ELSE Effects' = Effects]_vars

\* two triggers of one pitch with no update in between: two effects, both new
C15_Witness ==
    /\ pc = "triggered"
    /\ Len(Effects) = 2
    /\ Effects[1].note_midi = Effects[2].note_midi
    /\ Effects[1].alpha = 255 /\ Effects[2].alpha = 255

\* C16: after 26 updates in a row with no trigger there is no hit effect;
\* every update takes 10 off the alpha and adds 3 to the size of each effect,
\* and an effect is gone no later than the update that brings its size to
\* max_size.
C16_EffectsGoneAfter26Updates ==
    /\ frames >= 26 => Effects = <<>>
    /\ \A effect \in EffectSet :
          /\ effect.alpha <= 255 - 10 * frames
          /\ effect.size >= effect.max_size \div 3 + 3 * frames
          /\ effect.max_size \div 3 + 3 * frames < effect.max_size

\* an effect of a white key has come through 25 updates: the next removes it
C16_Witness ==
    /\ pc = "updated"
    /\ frames = 25
    /\ Len(Effects) = 1
    /\ Effects[1].alpha = 5

\* C17: after an update every effect left has 0 < alpha <= 255 and
\* size < max_size.
C17_LiveEffectsInRange ==
    pc = "updated" =>
        \A effect \in EffectSet :
            /\ 0 < effect.alpha /\ effect.alpha <= 255
            /\ effect.size < effect.max_size

\* an effect of a black key one update short of its max_size
C17_Witness ==
    /\ pc = "updated"
    /\ \E effect \in EffectSet :
          /\ effect.size < effect.max_size
          /\ effect.size + 3 >= effect.max_size
          /\ effect.alpha > 10

----------------------------------------------------------------------------
(* The claims about the session, checked under Spec.                       *)

\* the step is the handling of one event
Handles == events' = events + 1
\* the reset command was carried out by the event handled
ResetHandled == Handles /\ "reset" \in last'.did
\* the event handled is a left click on the first row of the results list,
\* and the list holds there a result whose file is a song that parses
LoadIssued ==
    /\ Handles
    /\ last'.event = MouseDown(PosItem, 1)
    /\ search_results_display_list.items_data # <<>>
    /\ search_results_display_list.items_data[1].url # "None"
    /\ ~parse_midi_file(Served(search_results_display_list.items_data[1].url)).is_none
Loaded == parse_midi_file(Served(search_results_display_list.items_data[1].url))

\* C4: in the state right after the R key-down was handled as the reset
\* command, the playhead is 0 and there is no hit effect, paused or not.
C4_ResetClearsPlayheadAndEffects ==
    [][ResetHandled =>
          /\ current_song_time_seconds' = 0
          /\ the_piano_roll'.hit_effects = <<>>]_vars

\* C5: a load that succeeds (a left click on a found result whose file parses)
\* puts the parsed notes, ticks per beat and tempo in the piano roll together,
\* and leaves the loop running with the playhead at 0.
C5_LoadReplacesSongTogether ==
    [][LoadIssued =>
          /\ the_piano_roll'.notes = Loaded.notes
          /\ the_piano_roll'.ticks_per_beat = Loaded.ticks_per_beat
          /\ the_piano_roll'.tempo_micros_per_beat = Loaded.tempo
          /\ current_song_time_seconds' = 0
          /\ pc' # "crashed"]_vars

\* C10: when the load of the default song reports failure, the session goes
\* on with no note, 480 ticks per beat and 500000 microseconds per beat, and
\* the piano roll lists and draws no rectangle, whatever the playhead.
C10_FailedLoadEmptyDefaults ==
    result.is_none =>
        /\ the_piano_roll.notes = <<>>
        /\ the_piano_roll.ticks_per_beat = 480
        /\ the_piano_roll.tempo_micros_per_beat = 500000
        /\ the_piano_roll.visible_note_representations = <<>>
        /\ Drawn(the_piano_roll) = <<>>

\* the load failed, and two frames later the playhead has moved and the
\* piano roll was updated
C10_Witness ==
    /\ result.is_none
    /\ frames = 2
    /\ pc = "tick"
    /\ current_song_time_seconds > 0

\* C18: the frame's tick leaves the playhead alone while paused and adds the
\* frame's elapsed time to it otherwise; no other step moves it, except the
\* handling of a reset command, which sets it to 0.
C18_PlayheadMonotone ==
    [][/\ frames' = frames + 1 =>
             current_song_time_seconds' =
                 IF paused THEN current_song_time_seconds
                 ELSE current_song_time_seconds + dt_ms'
       /\ frames' = frames =>
             \/ current_song_time_seconds' = current_song_time_seconds
             \/ ResetHandled /\ current_song_time_seconds' = 0
       /\ current_song_time_seconds' < current_song_time_seconds =>
             ResetHandled /\ current_song_time_seconds' = 0]_vars

\* P was pressed in the first frame, which took 17 ms, and the second frame
\* took 400 ms: the playhead is still at 17 ms
C18_Witness ==
    /\ frames = 2
    /\ events = 1
    /\ last.event = KeyDown("K_p", "p")
    /\ paused
    /\ dt_ms = 400
    /\ current_song_time_seconds = 17

----------------------------------------------------------------------------
(* The conversion of ticks to seconds (SpecTime).                          *)

\* the float after x, for a float x above 0
NextFloat(x) ==
    LET r == Inc(x.bits)
    IN  IF Len(r) = 54 THEN Float(Tail(r), x.exp + 1) ELSE Float(r, x.exp)
\* x and y are one unit in the last place apart
Adjacent(x, y) ==
    /\ x # FloatZero
    /\ y # FloatZero
    /\ \/ y = NextFloat(x)
       \/ x = NextFloat(y)

\* C19, as stated: the conversion of a sum of two tick counts is the sum of
\* their conversions
C19_TickToSecondsAdditive ==
    pc = "converted" => seconds.of_sum = seconds.sum

\* C19, amended: each conversion is the float nearest to the tick count times
\* seconds_per_tick, which is the float nearest to microseconds per beat over
\* 1000000 * ticks per beat; the conversion of a sum and the sum of the
\* conversions are the same float or one unit in the last place apart, and
\* the same float when either tick count is 0
C19_TickToSecondsAdditiveWithinOneUlp ==
    pc = "converted" =>
        LET a == seconds.ticks[1]
            b == seconds.ticks[2]
            c == float_div(the_piano_roll.tempo_micros_per_beat,
                           1000000 * the_piano_roll.ticks_per_beat)
        IN  /\ seconds.of_sum = float_mul(a + b, c)
            /\ seconds.of_each = <<float_mul(a, c), float_mul(b, c)>>
            /\ seconds.sum = float_add(seconds.of_each[1], seconds.of_each[2])
            /\ \/ seconds.of_sum = seconds.sum
               \/ Adjacent(seconds.of_sum, seconds.sum)
            /\ a = 0 \/ b = 0 => seconds.of_sum = seconds.sum

\* 1 tick and 5 ticks at 480 ticks per beat and 500000 microseconds per beat:
\* the conversion of 6 ticks is the float after the sum of the two
C19_Witness ==
    /\ pc = "converted"
    /\ the_piano_roll.ticks_per_beat = 480
    /\ the_piano_roll.tempo_micros_per_beat = 500000
    /\ seconds.ticks = <<1, 5>>
    /\ seconds.of_sum = NextFloat(seconds.sum)

----------------------------------------------------------------------------
(* The text box (SpecInput).                                               *)

\* a key-down that gives a character and is not Return, Backspace or Escape
TypesCharacter(event) ==
    /\ event.type = "KEYDOWN"
    /\ event.key \notin {"K_RETURN", "K_BACKSPACE", "K_ESCAPE"}
    /\ event.unicode # ""

\* C20: the text of a TextInputBox never holds more than max_len characters,
\* whatever events it handles, and a character typed into an active box whose
\* text holds max_len characters is discarded: the text stays as it was
C20_TextNeverExceedsMaxLen ==
    /\ [](Len(search_input_box.text) <= max_len)
    /\ [][\A event \in InputEvents :
            /\ Type(event)
            /\ TypesCharacter(event)
            /\ Len(search_input_box.text) = max_len
            => search_input_box'.text = search_input_box.text]_vars

\* the letter b was typed into an active box that was full of the letter a:
\* the text is still max_len times a
C20_Witness ==
    /\ last.event = KeyDown("K_b", "b")
    /\ search_input_box.active
    /\ search_input_box.text = InitialText(max_len)

\* C21: a TextInputBox is active exactly when the latest event that bears on
\* its focus (a mouse-button-down anywhere, or an Escape key-down received
\* while active) is a mouse-button-down inside its rectangle, so it is
\* inactive before any such event; a key-down received while inactive changes
\* neither the text nor the active flag and returns no action
C21_ActiveIffLastClickInside ==
    /\ [](search_input_box.active <=>
             /\ last.activation.type = "MOUSEBUTTONDOWN"
             /\ collidepoint(search_input_box_rect, last.activation.pos))
    /\ [][\A event \in InputEvents :
            /\ Type(event)
            /\ event.type = "KEYDOWN"
            /\ ~search_input_box.active
            => /\ search_input_box' = search_input_box
               /\ last'.did = {"None"}]_vars

\* the empty box was clicked, Escape took the focus away, and the letter a
\* typed then left the text empty
C21_Witness ==
    /\ events = 3
    /\ last.event = KeyDown("K_a", "a")
    /\ last.activation = KeyDown("K_ESCAPE", "esc")
    /\ ~search_input_box.active
    /\ search_input_box.text = <<>>

----------------------------------------------------------------------------
(* The button (SpecButton).                                                *)

\* C22: an event the button handles calls the callback once if it is a left
\* mouse-button-down and the button is enabled and hovered, and not at all
\* otherwise; an event handled while the button is disabled changes nothing
\* of the button
C22_CallbackOncePerHoveredClick ==
    [][\A event \in ButtonEvents :
          Press(event) =>
              /\ last'.calls - last.calls =
                     IF /\ event.type = "MOUSEBUTTONDOWN" /\ event.button = 1
                        /\ search_button.enabled /\ search_button.is_hovered
                     THEN 1 ELSE 0
              /\ ~search_button.enabled => search_button' = search_button]_vars

\* the mouse came onto the button and pressed it twice: two calls
C22_Witness ==
    /\ events = 3
    /\ last.event = MouseDown(PosButton, 1)
    /\ last.calls = 2
    /\ search_button.is_pressed

----------------------------------------------------------------------------
(* The game's keys and the focus of the search box (Spec).                 *)

\* C23: a key-down handled while the search input box is active does not
\* quit, toggle pause, move the playhead, press a piano key or add a hit
\* effect
C23_NoGameKeysWhileTyping ==
    [][(/\ Handles
        /\ last'.event.type = "KEYDOWN"
        /\ search_input_box.active)
       => /\ running' = running
          /\ paused' = paused
          /\ current_song_time_seconds' = current_song_time_seconds
          /\ pressed_keys' = pressed_keys
          /\ the_piano_roll'.hit_effects = the_piano_roll.hit_effects]_vars

----------------------------------------------------------------------------
(* The hit line and the scrolling of the rectangles (SpecRoll).            *)

Visible(roll) ==
    {roll.visible_note_representations[i] : i \in 1..Len(roll.visible_note_representations)}
\* the listed rectangles of the notes whose height on screen is a pixel or more
Tall(roll) == {item \in Visible(roll) : note_screen_height(roll, item.note_obj) >= PxScale(roll)}
Bottom(rect) == rect.y + rect.h
\* where the real-valued projection puts the bottom edge of a note at the
\* playhead: hit_line_y + (playhead - start_s) * speed, in units
ExactBottom(roll, n, now) ==
    hit_line_y(roll) + MillisToUnits(roll, now) - TicksToUnits(roll, n.start_time)
AtStart(roll, n, now) == MillisToUnits(roll, now) = TicksToUnits(roll, n.start_time)
Abs(x) == IF x < 0 THEN -x ELSE x

\* C24, as stated: the bottom edge of a listed rectangle is at hit_line_y
\* exactly when the playhead is at the note's start, and from a playhead to a
\* later one the rectangle moves down by the time between them times the
\* scroll speed, its height, x and width unchanged
C24_BottomAtHitLineAtStart ==
    /\ [](Updated => \A item \in Tall(the_piano_roll) :
             Bottom(item.rect) * PxScale(the_piano_roll) = hit_line_y(the_piano_roll)
                <=> AtStart(the_piano_roll, item.note_obj, current_song_time_seconds))
    /\ [][(Updated /\ current_song_time_seconds < current_song_time_seconds') =>
            \A item \in Tall(the_piano_roll) : \A next \in Tall(the_piano_roll') :
                next.note_obj = item.note_obj =>
                    /\ (next.rect.y - item.rect.y) * PxScale(the_piano_roll) =
                          MillisToUnits(the_piano_roll,
                                        current_song_time_seconds' - current_song_time_seconds)
                    /\ next.rect.h = item.rect.h
                    /\ next.rect.x = item.rect.x
                    /\ next.rect.w = item.rect.w]_vars

\* C24, amended: a listed rectangle is made of whole pixels: its bottom edge
\* is less than 2 pixels from hit_line_y + (playhead - start) * speed, which
\* is hit_line_y when the playhead is at the note's start, and its x and
\* width are the key's; from a playhead to a later one it moves down by the
\* time between them times the scroll speed to within less than 2 pixels,
\* its height, x and width unchanged
C24_BottomNearHitLineAtStart ==
    /\ [](Updated => \A item \in Tall(the_piano_roll) :
             /\ Abs(Bottom(item.rect) * PxScale(the_piano_roll)
                       - ExactBottom(the_piano_roll, item.note_obj, current_song_time_seconds))
                   < 2 * PxScale(the_piano_roll)
             /\ item.rect.x = key_rects_map[item.note_obj.note].x_on_keyboard
             /\ item.rect.w = key_rects_map[item.note_obj.note].w_on_keyboard)
    /\ [][(Updated /\ current_song_time_seconds < current_song_time_seconds') =>
            \A item \in Tall(the_piano_roll) : \A next \in Tall(the_piano_roll') :
                next.note_obj = item.note_obj =>
                    /\ Abs((next.rect.y - item.rect.y) * PxScale(the_piano_roll)
                              - MillisToUnits(the_piano_roll,
                                    current_song_time_seconds' - current_song_time_seconds))
                          < 2 * PxScale(the_piano_roll)
                    /\ next.rect.h = item.rect.h
                    /\ next.rect.x = item.rect.x
                    /\ next.rect.w = item.rect.w]_vars

\* the playhead is at the start of a note of 250 ticks (31.25 pixels at 480
\* ticks a beat): its rectangle is listed and its bottom edge is not at
\* hit_line_y
C24_Witness ==
    /\ Updated
    /\ \E item \in Tall(the_piano_roll) :
          /\ item.note_obj.duration = 250
          /\ item.note_obj.start_time > 0
          /\ AtStart(the_piano_roll, item.note_obj, current_song_time_seconds)
          /\ Bottom(item.rect) * PxScale(the_piano_roll) # hit_line_y(the_piano_roll)

----------------------------------------------------------------------------
(* The results of a search in the frame loop (Spec).                       *)

\* the event handled ran a search, the query being non-empty
SearchRun == Handles /\ "search" \in last'.did

\* C25: the handling of an event that runs a search leaves the results list
\* shown, holding what was found or the one entry "No results found."; and
\* while the list is shown the end of a frame does not update the piano roll
C25_SearchShowsResults ==
    [][/\ SearchRun =>
             /\ show_search_results_ui'
             /\ search_results_display_list'.items_data # <<>>
             /\ search_results_display_list'.items_data \in SearchResults \cup {no_results_message}
       /\ (show_search_results_ui /\ pc = "events" /\ pc' \in {"tick", "quit"}) =>
             the_piano_roll' = the_piano_roll]_vars

----------------------------------------------------------------------------
(* The keys and their sounds (SpecKeys).                                   *)

\* a call of set_key_pressed was made, by itself or by a click
Called == events' = events + 1
\* the call takes its note from not pressed to pressed
InitialPress == last'.is_pressed /\ last'.midi_note \notin pressed_keys

\* C26, as stated: a call plays a sound exactly if it takes its note from not
\* pressed to pressed, and after it a note is pressed exactly if the last
\* call for it was a press
C26_SoundOnInitialPressOnly ==
    /\ [][Called => (last'.played <=> InitialPress)]_vars
    /\ [](\A n \in KeyPitches : n \in pressed_keys <=> last.calls[n] = "press")

\* C26, amended: a call plays a sound exactly if it takes its note from not
\* pressed to pressed and the keyboard holds a sound for the note; so never
\* on a press of a pressed key and never on a release; after it a note is
\* pressed exactly if the last call for it was a press
C26_SoundOnInitialPressIfLoaded ==
    /\ [][Called => (last'.played <=> (InitialPress /\ last'.midi_note \in key_sounds))]_vars
    /\ [](\A n \in KeyPitches : n \in pressed_keys <=> last.calls[n] = "press")

\* key 60 has a sound and key 61 has none: 60 was pressed twice and played
\* once, then 61 was pressed and nothing played
C26_Witness ==
    /\ events = 3
    /\ key_sounds = {60}
    /\ pressed_keys = {60, 61}
    /\ last.midi_note = 61
    /\ ~last.played

----------------------------------------------------------------------------
(* The release of the piano keys played from the computer keyboard (Spec). *)

\* C27: once the key-up of a computer key that plays a note has been handled,
\* that note is not among the pressed keys
C27_KeyUpReleases ==
    [][(/\ Handles
        /\ last'.event.type = "KEYUP"
        /\ last'.event.key \in DOMAIN KEY_TO_MIDI)
       => KEY_TO_MIDI[last'.event.key] \notin pressed_keys']_vars

----------------------------------------------------------------------------
(* The notes of one pitch.                                                 *)

\* the tick at which a note ends
NoteEnd(n) == n.start_time + n.duration
\* the note-on i is never matched: no end of its pitch comes after it
Unmatched(track, i) ==
    /\ IsNoteOn(track[i])
    /\ \A k \in (i + 1)..Len(track) : ~(IsNoteEnd(track[k]) /\ track[k].note = track[i].note)

\* C29: in a parse result, of two distinct notes of one pitch one ends at or
\* before the tick the other starts at; the notes are at most as many as the
\* nonzero-velocity note-ons of the selected track that are not left
\* unmatched, and no note of a pitch lasts beyond an unmatched note-on of it.
C29_NotesOfAPitchNeverOverlap ==
    (Returned /\ ~result.is_none) =>
        /\ \A a, b \in 1..Len(result.notes) :
              (a # b /\ result.notes[a].note = result.notes[b].note)
                 => \/ NoteEnd(result.notes[a]) <= result.notes[b].start_time
                    \/ NoteEnd(result.notes[b]) <= result.notes[a].start_time
        /\ Len(result.notes) <= note_on_count(Selected)
        /\ Len(result.notes) + Cardinality({i \in 1..Len(Selected) : Unmatched(Selected, i)})
              <= note_on_count(Selected)
        /\ \A i \in 1..Len(Selected) : \A m \in 1..Len(result.notes) :
              (Unmatched(Selected, i) /\ result.notes[m].note = Selected[i].note)
                 => NoteEnd(result.notes[m]) <= AbsTick(Selected, i)

\* two notes of one pitch were returned, the second starting at the tick the
\* first ends at
C29_Witness ==
    /\ Returned
    /\ Len(result.notes) = 2
    /\ result.notes[1].note = result.notes[2].note
    /\ NoteEnd(result.notes[1]) = result.notes[2].start_time

----------------------------------------------------------------------------
(* Playback paused.                                                        *)

\* the step is the update of the piano roll that ends a frame
Updates == pc = "events" /\ pc' \in {"tick", "quit"}
\* the event handled is a press of a computer key or of a mouse button
PressHandled == Handles /\ last'.event.type \in {"KEYDOWN", "MOUSEBUTTONDOWN"}
Rectangles == the_piano_roll.visible_note_representations
\* a press handled while paused presses no piano key and makes no hit effect
PausedPressPlaysNothing ==
    (paused /\ PressHandled) =>
        /\ pressed_keys' \subseteq pressed_keys
        /\ Len(Effects') <= Len(Effects)
        /\ \A i \in 1..Len(Effects') : \E j \in 1..Len(Effects) : Effects'[i] = Effects[j]
\* an update while paused fades every hit effect and drops those that ended
PausedEffectsFade ==
    (paused /\ Updates) =>
        /\ Effects' = FadeEffects(Effects)
        /\ Len(Effects') <= Len(Effects)
        /\ \A i \in 1..Len(Effects') : \E j \in 1..Len(Effects) :
              /\ Effects'[i].note_midi = Effects[j].note_midi
              /\ Effects'[i].alpha = Effects[j].alpha - 10
              /\ Effects'[i].size = Effects[j].size + 3
        /\ Effects # <<>> => Effects' # Effects

\* C30, as stated: while paused no press of a computer key or of the mouse
\* presses a piano key or makes a hit effect, no step moves the playhead, an
\* update lists the rectangles the update before it listed, and the hit
\* effects go on fading at each update.
C30_PausedFreezesPlayhead ==
    [][/\ PausedPressPlaysNothing
       /\ paused => current_song_time_seconds' = current_song_time_seconds
       /\ (Updates /\ last.paused_since) =>
             /\ current_song_time_seconds = last.drawn_at
             /\ Rectangles' = Rectangles
       /\ PausedEffectsFade]_vars

\* C30, amended: the same, but for the reset command, which sets the
\* playhead to 0 while paused too: no step but the handling of a reset moves
\* the playhead, and an update at the playhead of the update before it lists
\* the same rectangles.
C30_PausedFreezesPlayheadUnlessReset ==
    [][/\ PausedPressPlaysNothing
       /\ (paused /\ ~ResetHandled) => current_song_time_seconds' = current_song_time_seconds
       /\ (paused /\ ResetHandled) => current_song_time_seconds' = 0
       /\ (Updates /\ last.paused_since) =>
             /\ current_song_time_seconds \in {last.drawn_at, 0}
             /\ current_song_time_seconds = last.drawn_at => Rectangles' = Rectangles
       /\ PausedEffectsFade]_vars

\* the A key played a note in the first frame and P paused; the second frame
\* took 400 ms and the A key went down again in it: the update has left the
\* playhead and the rectangles as they were, there is still one hit effect,
\* and it has faded twice
C30_Witness ==
    /\ frames = 2
    /\ pc = "tick"
    /\ dt_ms = 400
    /\ paused
    /\ last.paused_since
    /\ last.event = KeyDown("K_a", "a")
    /\ current_song_time_seconds = 17
    /\ last.drawn_at = 17
    /\ Rectangles # <<>>
    /\ pressed_keys = {60}
    /\ Len(Effects) = 1
    /\ Effects[1].alpha = 235
====
